---- MODULE Spec2Model ----
(***************************************************************************)
(* brk-cache-api: the read-only aggregation layer over the Redis store.    *)
(* RedisUtils (utils/redis.utils.ts) is modelled call by call: a call is    *)
(* suspended at each `await pipeline.exec()` / `await redisClient.x()`, so  *)
(* the position of the running call is the await it is waiting on, and one  *)
(* action models the code from one await to the next.                       *)
(***************************************************************************)
EXTENDS Integers, Sequences, FiniteSets, TLC

\* Bounds of the model (not program constants).
MaxMembers == 2
MaxKeys == 3
MaxRegulations == 4
MaxPages == 2
MaxPageKeys == 2

VARIABLES
    hashes,   \* the store: key -> field-map (HGETALL of a missing key is the empty map)
    sets,     \* the store: index key -> member ids in the order SMEMBERS returns them
    strings,  \* the store: key -> JSON text of a legacy scalar value (GET of a missing key is null)
    pc,       \* the await the running call is suspended on, "idle" or "done"
    call,     \* the running call: [op, arg]
    loc,      \* the locals of the running call that live across an await
    ret,      \* how the call ended: [kind |-> "none" | "null" | "value" | "throw", val]
    trips,    \* the round trips of the current request: [batch, reply], in order of issue
    chain     \* the state of the chained three-level query driving the calls

vars == <<hashes, sets, strings, pc, call, loc, ret, trips, chain>>

----------------------------------------------------------------------------
(* Strings. TLC cannot index a string, so the characters of the raw values  *)
(* that occur in the model's stores are listed here.                        *)

Chars(s) ==
    CASE s = "" -> <<>>
      [] s = "0" -> <<"0">>
      [] s = "1" -> <<"1">>
      [] s = "2" -> <<"2">>
      [] s = "3" -> <<"3">>
      [] s = "10" -> <<"1", "0">>
      [] s = "12" -> <<"1", "2">>
      [] s = "-7" -> <<"-", "7">>
      [] s = " 42" -> <<" ", "4", "2">>
      [] s = "12abc" -> <<"1", "2", "a", "b", "c">>
      [] s = "abc" -> <<"a", "b", "c">>
      [] s = "x" -> <<"x">>
      [] s = "yes" -> <<"y", "e", "s">>
      [] s = "n" -> <<"n">>
      [] s = "true" -> <<"t", "r", "u", "e">>
      [] s = "false" -> <<"f", "a", "l", "s", "e">>
      [] s = "TRUE" -> <<"T", "R", "U", "E">>
      [] s = "null" -> <<"n", "u", "l", "l">>
      [] s = "[]" -> <<"[", "]">>
      [] s = "[1]" -> <<"[", "1", "]">>
      [] s = "[1,2]" -> <<"[", "1", ",", "2", "]">>
      [] s = "{}" -> <<"{", "}">>
      [] s = "{" -> <<"{">>
      [] s = "[1," -> <<"[", "1", ",">>
      [] s = "2024-01-15" -> <<"2", "0", "2", "4", "-", "0", "1", "-", "1", "5">>
      [] s = "2024-13-01" -> <<"2", "0", "2", "4", "-", "1", "3", "-", "0", "1">>
      [] s = "c1" -> <<"c", "1">>
      [] s = "c2" -> <<"c", "2">>
      [] s = "s1" -> <<"s", "1">>
      [] s = "s2" -> <<"s", "2">>
      [] s = "k1" -> <<"k", "1">>
      [] s = "k2" -> <<"k", "2">>
      [] s = "t1" -> <<"t", "1">>
      [] s = "t2" -> <<"t", "2">>
      [] s = "r1" -> <<"r", "1">>
      [] s = "r2" -> <<"r", "2">>
      [] s = "r3" -> <<"r", "3">>
      [] s = "r4" -> <<"r", "4">>
      [] s = "u1" -> <<"u", "1">>
      [] s = "u2" -> <<"u", "2">>
      [] s = "user:u1" -> <<"u", "s", "e", "r", ":", "u", "1">>
      [] s = "user:u2" -> <<"u", "s", "e", "r", ":", "u", "2">>
      [] s = "stale" -> <<"s", "t", "a", "l", "e">>

DigitChars == <<"0", "1", "2", "3", "4", "5", "6", "7", "8", "9">>

IsDigit(c) == \E i \in 1..Len(DigitChars) : DigitChars[i] = c

DigitVal(c) == (CHOOSE i \in 1..Len(DigitChars) : DigitChars[i] = c) - 1

----------------------------------------------------------------------------
(* Decoded values. A decoded record maps field names to tagged values, so   *)
(* that a number, a string, a date and a parsed document stay distinct.     *)

Str(s) == [t |-> "string", v |-> s]
Num(n) == [t |-> "number", v |-> n]
NaN == [t |-> "NaN"]
Bool(b) == [t |-> "boolean", v |-> b]
DateOf(s) == [t |-> "date", v |-> s]
InvalidDate == [t |-> "invalidDate"]
JsNull == [t |-> "null"]
Arr(items) == [t |-> "array", v |-> items]
Obj(fields) == [t |-> "object", v |-> fields]

EmptyMap == [f \in {} |-> ""]

IsEmptyMap(m) == DOMAIN m = {}

----------------------------------------------------------------------------
(* The conversions parseHashData applies to a raw string value.             *)

RECURSIVE DropSpaces(_)
DropSpaces(cs) ==
    IF cs # <<>> /\ Head(cs) = " " THEN DropSpaces(Tail(cs)) ELSE cs

RECURSIVE DigitRun(_)
\* the longest prefix of cs made of decimal digits
DigitRun(cs) ==
    IF cs # <<>> /\ IsDigit(Head(cs)) THEN <<Head(cs)>> \o DigitRun(Tail(cs)) ELSE <<>>

RECURSIVE DigitsValue(_, _)
DigitsValue(ds, acc) ==
    IF ds = <<>> THEN acc ELSE DigitsValue(Tail(ds), acc * 10 + DigitVal(Head(ds)))

\* parseInt(value, 10): leading white space, an optional sign, then the longest
\* run of digits; NaN when there is no digit.
ParseInt(s) ==
    LET cs == DropSpaces(Chars(s))
        signed == cs # <<>> /\ Head(cs) \in {"-", "+"}
        body == IF signed THEN Tail(cs) ELSE cs
        ds == DigitRun(body)
    IN  IF ds = <<>> THEN NaN
        ELSE IF signed /\ Head(cs) = "-" THEN Num(0 - DigitsValue(ds, 0))
        ELSE Num(DigitsValue(ds, 0))

TwoDigits(cs, i) == DigitVal(cs[i]) * 10 + DigitVal(cs[i + 1])

\* new Date(value) for the date-only ISO form YYYY-MM-DD; any other text of the
\* model's stores, and a month or day out of range, is an Invalid Date. The
\* constructor never throws.
NewDate(s) ==
    LET cs == Chars(s)
        shaped == /\ Len(cs) = 10
                  /\ cs[5] = "-" /\ cs[8] = "-"
                  /\ \A i \in {1, 2, 3, 4, 6, 7, 9, 10} : IsDigit(cs[i])
    IN  IF shaped /\ TwoDigits(cs, 6) \in 1..12 /\ TwoDigits(cs, 9) \in 1..31
        THEN DateOf(s) ELSE InvalidDate

RECURSIVE JsonElements(_)
\* the elements of "d,d,...]" (one digit each), or a failure
JsonElements(cs) ==
    IF Len(cs) >= 2 /\ IsDigit(cs[1]) /\ cs[2] = "]" /\ Len(cs) = 2
    THEN [ok |-> TRUE, v |-> <<Num(DigitVal(cs[1]))>>]
    ELSE IF Len(cs) >= 3 /\ IsDigit(cs[1]) /\ cs[2] = ","
    THEN LET rest == JsonElements(SubSeq(cs, 3, Len(cs)))
         IN  IF rest.ok THEN [ok |-> TRUE, v |-> <<Num(DigitVal(cs[1]))>> \o rest.v]
             ELSE [ok |-> FALSE, v |-> <<>>]
    ELSE [ok |-> FALSE, v |-> <<>>]

\* the JSON text of the object {"id": id}, as the ingestion writes a legacy
\* scalar value
DocIds == {"a", "b", "s1"}
DocText(id) == "{\"id\":\"" \o id \o "\"}"

\* JSON.parse(value) on the documents of the model's stores: null, true, false,
\* an integer, {}, {"id": ...} and an array of digits. ok = FALSE is the
\* SyntaxError it throws.
JSONParse(s) ==
    LET cs == Chars(s)
        threw == [ok |-> FALSE, v |-> JsNull]
    IN  IF \E id \in DocIds : s = DocText(id)
        THEN [ok |-> TRUE, v |-> Obj([id |-> Str(CHOOSE id \in DocIds : s = DocText(id))])]
        ELSE IF s = "null" THEN [ok |-> TRUE, v |-> JsNull]
        ELSE IF s = "true" THEN [ok |-> TRUE, v |-> Bool(TRUE)]
        ELSE IF s = "false" THEN [ok |-> TRUE, v |-> Bool(FALSE)]
        ELSE IF s = "{}" THEN [ok |-> TRUE, v |-> Obj(EmptyMap)]
        ELSE IF s = "[]" THEN [ok |-> TRUE, v |-> Arr(<<>>)]
        ELSE IF cs # <<>> /\ Head(cs) = "["
        THEN LET els == JsonElements(Tail(cs))
             IN  IF els.ok THEN [ok |-> TRUE, v |-> Arr(els.v)] ELSE threw
        ELSE IF cs # <<>> /\ DigitRun(cs) = cs THEN [ok |-> TRUE, v |-> Num(DigitsValue(cs, 0))]
        ELSE threw

IntFields == {"maxPilots", "minimumAge", "ballast"}
DateFields == {"startDate", "endDate", "date", "createdAt", "updatedAt"}
JsonFields == {"sponsors", "trackLayouts", "defaultFleets", "generalInfo", "pilots", "classification"}
BoolFields == {"regulationsEnabled", "isActive"}

\* Mutant: classification gets the empty list like the other documents.
JsonDefault_EmptyList(key) == Arr(<<>>)

\* the value put in place of an empty or malformed nested document
JsonDefault(key) == IF key = "classification" THEN JsNull ELSE Arr(<<>>)

\* one iteration of the loop of parseHashData
DecodeField(key, value) ==
    IF key \in IntFields THEN ParseInt(value)
    ELSE IF key \in DateFields THEN NewDate(value)
    ELSE IF key \in JsonFields
    THEN IF value # ""
         THEN LET p == JSONParse(value) IN IF p.ok THEN p.v ELSE JsonDefault(key)
         ELSE JsonDefault(key)
    ELSE IF key \in BoolFields THEN Bool(value = "true" \/ value = "1")
    ELSE Str(value)

\* Mutant: the boolean fields the field-map lacks are filled in as false.
parseHashData_FillAbsent(hashData) ==
    [key \in DOMAIN hashData \cup BoolFields |->
        IF key \in DOMAIN hashData THEN DecodeField(key, hashData[key]) ELSE Bool(FALSE)]

\* Mutant: the name is replaced when the store holds a record of user u1.
parseHashData_ReadsStore(hashData) ==
    [key \in DOMAIN hashData |->
        IF key = "name" /\ "user:u1" \in DOMAIN hashes /\ DOMAIN hashes["user:u1"] # {}
        THEN Str("stored")
        ELSE DecodeField(key, hashData[key])]

parseHashData(hashData) == [key \in DOMAIN hashData |-> DecodeField(key, hashData[key])]

\* { ...rec, [field]: value } and rec[field] = value
WithField(rec, field, value) ==
    [k \in DOMAIN rec \cup {field} |-> IF k = field THEN value ELSE rec[k]]

----------------------------------------------------------------------------
(* The store and the client (config/redis.ts, an ioredis client). A batch   *)
(* is the sequence of commands queued on one pipeline; pipeline.exec() is   *)
(* one round trip. Its promise either rejects, or resolves to null, or      *)
(* resolves to one [err, data] pair per queued command.                     *)

ChampIds == {"c1"}
SeasonIds == {"s1", "s2"}
CategoryIds == {"k1"}
StageIds == {"t1", "t2"}
RegulationIds == {"r1", "r2"}
UserIds == {"u1", "u2"}

championshipKey(id) == "championship:" \o id
seasonsSetKey(id) == "championship:" \o id \o ":seasons"
seasonKey(id) == "season:" \o id
categoriesSetKey(id) == "season:" \o id \o ":categories"
stagesSetKey(id) == "season:" \o id \o ":stages"
regulationsSetKey(id) == "season:" \o id \o ":regulations"
categoryKey(id) == "category:" \o id
stageKey(id) == "stage:" \o id
regulationKey(id) == "regulation:" \o id
userKey(id) == "user:" \o id

HGetAllCmd(key) == [cmd |-> "hgetall", key |-> key]

\* Mutant: the index is read with a command that removes it.
SMembersCmd_Delete(key) == [cmd |-> "del", key |-> key]

SMembersCmd(key) == [cmd |-> "smembers", key |-> key]

\* HGETALL of a key that holds no hash is the empty map; SMEMBERS of a key that
\* holds no set is the empty list.
HGetAll(key) == IF key \in DOMAIN hashes THEN hashes[key] ELSE EmptyMap
SMembers(key) == IF key \in DOMAIN sets THEN sets[key] ELSE <<>>

\* GET of a key that holds no string is null.
NoStrings == [k \in {} |-> ""]
NoValue == [t |-> "nil"]
Get(key) == IF key \in DOMAIN strings THEN [t |-> "bulk", v |-> strings[key]] ELSE NoValue
GetCmd(key) == [cmd |-> "get", key |-> key]

ExecCmd(c) ==
    IF c.cmd = "hgetall" THEN HGetAll(c.key)
    ELSE IF c.cmd = "smembers" THEN SMembers(c.key)
    ELSE IF c.cmd = "get" THEN Get(c.key)
    ELSE "PONG"

\* GET of a key that holds a field-map is answered with a WRONGTYPE error.
WrongType(c) == c.cmd = "get" /\ c.key \in DOMAIN hashes /\ ~IsEmptyMap(hashes[c.key])

ReplyKinds == {"reject", "null", "array"}

\* The outcome of pipeline.exec() for the batch: errs[i] says that command i of
\* the batch came back with an error.
Reply(batch, kind, errs) ==
    [kind |-> kind,
     results |-> IF kind = "array"
                 THEN [i \in 1..Len(batch) |->
                         IF errs[i] \/ WrongType(batch[i]) THEN [err |-> TRUE]
                         ELSE [err |-> FALSE, data |-> ExecCmd(batch[i])]]
                 ELSE <<>>]

Pending == [kind |-> "pending", results |-> <<>>]

\* pipeline.exec() (or a single command) is sent: one more round trip
Issue(batch) == Append(trips, [batch |-> batch, reply |-> Pending])

\* the batch of the latest round trip (none before the first)
LastBatch == IF trips = <<>> THEN <<>> ELSE trips[Len(trips)].batch

\* The replies the store can give to the pending batch: a rejected promise, a
\* null result, or one pair per command, any of them with an error.
NoErrs == [i \in 1..Len(LastBatch) |-> FALSE]
ErrFlags(kind) == IF kind = "array" THEN [1..Len(LastBatch) -> BOOLEAN] ELSE {NoErrs}

\* the reply of the round trip the call is suspended on
Answered(reply) == [trips EXCEPT ![Len(trips)] = [batch |-> @.batch, reply |-> reply]]

\* the number of round trips of the current request
RoundTrips == Len(trips)

NoRet == [kind |-> "none"]
Thrown == [kind |-> "throw"]
ReturnNull == [kind |-> "null"]
ReturnValue(v) == [kind |-> "value", val |-> v]

NoLoc == [op |-> "none"]
NoCall == [op |-> "none"]
ChainOff == [phase |-> "off"]

----------------------------------------------------------------------------
(* What every operation does with one [err, data] pair of a hash read.      *)

\* Mutant: the empty field-map is no longer taken for a missing record.
HashMissing_ErrOnly(res) == res.err

\* if (err || !data || Object.keys(data).length === 0) return null;
HashMissing(res) == res.err \/ IsEmptyMap(res.data)

\* Mutant: an empty id list is fetched like any other.
IdsMissing_ErrOnly(res) == res.err

\* if (seasonsErr || !seasonIds || seasonIds.length === 0): no ids to fetch
IdsMissing(res) == res.err \/ Len(res.data) = 0

Null == JsNull

\* Mutant: the records come out in the reverse of the fetched order.
MapDecode_Reversed(results) ==
    [i \in 1..Len(results) |->
        IF HashMissing(results[Len(results) + 1 - i]) THEN Null
        ELSE parseHashData(results[Len(results) + 1 - i].data)]

\* results.map(result => missing ? null : this.parseHashData(data))
MapDecode(results) ==
    [i \in 1..Len(results) |->
        IF HashMissing(results[i]) THEN Null ELSE parseHashData(results[i].data)]

\* Mutant: the null slots are kept.
FilterNotNull_Keep(items) == items

RECURSIVE FilterNotNull(_)
\* .filter(item => item !== null)
FilterNotNull(items) ==
    IF items = <<>> THEN <<>>
    ELSE IF Head(items) = Null THEN FilterNotNull(Tail(items))
    ELSE <<Head(items)>> \o FilterNotNull(Tail(items))

DecodeKept(results) == FilterNotNull(MapDecode(results))

HashBatch(keyOf(_), ids) == [i \in 1..Len(ids) |-> HGetAllCmd(keyOf(ids[i]))]

----------------------------------------------------------------------------
(* getChampionshipWithSeasons                                               *)

GcwsPipeline1(championshipId) ==
    <<HGetAllCmd(championshipKey(championshipId)), SMembersCmd(seasonsSetKey(championshipId))>>

\* Mutant: a championship without seasons is reported as not found.
GcwsAfterFirst_NullWithoutSeasons(reply) ==
    IF reply.kind = "reject" THEN [act |-> "end", ret |-> Thrown]
    ELSE IF reply.kind = "null" \/ Len(reply.results) < 2 THEN [act |-> "end", ret |-> ReturnNull]
    ELSE IF HashMissing(reply.results[1]) \/ IdsMissing(reply.results[2])
    THEN [act |-> "end", ret |-> ReturnNull]
    ELSE [act |-> "fetch", championship |-> parseHashData(reply.results[1].data),
          seasonIds |-> reply.results[2].data]

\* From the first `await pipeline1.exec()` to the next await or the return.
GcwsAfterFirst(reply) ==
    IF reply.kind = "reject" THEN [act |-> "end", ret |-> Thrown]
    ELSE IF reply.kind = "null" \/ Len(reply.results) < 2 THEN [act |-> "end", ret |-> ReturnNull]
    ELSE LET championshipResult == reply.results[1]
             seasonIdsResult == reply.results[2]
         IN  IF HashMissing(championshipResult) THEN [act |-> "end", ret |-> ReturnNull]
             ELSE LET championship == parseHashData(championshipResult.data)
                  IN  IF IdsMissing(seasonIdsResult)
                      THEN [act |-> "end",
                            ret |-> ReturnValue(WithField(championship, "seasons", <<>>))]
                      ELSE [act |-> "fetch", championship |-> championship,
                            seasonIds |-> seasonIdsResult.data]

\* Mutant: the championship of the result is read again from the store.
GcwsAfterSecond_Reread(championship, reply) ==
    LET again == parseHashData(HGetAll(championshipKey(call.arg)))
    IN  IF reply.kind = "reject" THEN Thrown
        ELSE IF reply.kind = "null" THEN ReturnValue(WithField(again, "seasons", <<>>))
        ELSE ReturnValue(WithField(again, "seasons", DecodeKept(reply.results)))

\* From the second `await pipeline2.exec()` to the return.
GcwsAfterSecond(championship, reply) ==
    IF reply.kind = "reject" THEN Thrown
    ELSE IF reply.kind = "null" THEN ReturnValue(WithField(championship, "seasons", <<>>))
    ELSE ReturnValue(WithField(championship, "seasons", DecodeKept(reply.results)))

getChampionshipWithSeasons_Call(championshipId) ==
    /\ pc = "idle"
    /\ pc' = "gcws1"
    /\ call' = [op |-> "getChampionshipWithSeasons", arg |-> championshipId]
    /\ trips' = Issue(GcwsPipeline1(championshipId))
    /\ loc' = NoLoc
    /\ ret' = NoRet
    /\ UNCHANGED <<hashes, sets, strings, chain>>

getChampionshipWithSeasons_First(kind, errs) ==
    /\ pc = "gcws1"
    /\ LET reply == Reply(LastBatch, kind, errs)
           d == GcwsAfterFirst(reply)
       IN  IF d.act = "fetch"
           THEN /\ pc' = "gcws2"
                /\ loc' = [op |-> "gcws", championship |-> d.championship,
                           seasonIds |-> d.seasonIds]
                /\ trips' = Append(Answered(reply), [batch |-> HashBatch(seasonKey, d.seasonIds),
                                                     reply |-> Pending])
                /\ ret' = ret
           ELSE /\ pc' = "done"
                /\ ret' = d.ret
                /\ trips' = Answered(reply)
                /\ loc' = loc
    /\ UNCHANGED <<hashes, sets, strings, call, chain>>

getChampionshipWithSeasons_Second(kind, errs) ==
    /\ pc = "gcws2"
    /\ pc' = "done"
    /\ LET reply == Reply(LastBatch, kind, errs)
       IN  /\ ret' = GcwsAfterSecond(loc.championship, reply)
           /\ trips' = Answered(reply)
    /\ UNCHANGED <<hashes, sets, strings, call, loc, chain>>

----------------------------------------------------------------------------
(* The order of regulations: .sort((a, b) => (a.order || 0) - (b.order || 0)) *)

\* Number(s) for a non-empty string: white space around is dropped, the empty
\* rest is 0, an optionally signed run of digits is its value, anything else
\* is NaN.
ToNumber(s) ==
    LET cs == DropSpaces(Chars(s))
        signed == cs # <<>> /\ Head(cs) \in {"-", "+"}
        body == IF signed THEN Tail(cs) ELSE cs
    IN  IF cs = <<>> THEN Num(0)
        ELSE IF body = <<>> \/ DigitRun(body) # body THEN NaN
        ELSE IF Head(cs) = "-" THEN Num(0 - DigitsValue(body, 0))
        ELSE Num(DigitsValue(body, 0))

\* (a.order || 0) as a number: a missing field and the empty string are falsy.
OrderOf(rec) ==
    IF "order" \notin DOMAIN rec THEN Num(0)
    ELSE IF rec["order"].v = "" THEN Num(0)
    ELSE ToNumber(rec["order"].v)

\* The comparator; a NaN difference counts as 0 in Array.prototype.sort.
CompareOrder(a, b) ==
    IF OrderOf(a) = NaN \/ OrderOf(b) = NaN THEN 0 ELSE OrderOf(a).v - OrderOf(b).v

RECURSIVE InsertByOrder(_, _)
\* x put behind every element that does not compare greater than it
InsertByOrder(x, sorted) ==
    IF sorted = <<>> THEN <<x>>
    ELSE LET last == sorted[Len(sorted)]
         IN  IF CompareOrder(last, x) <= 0 THEN Append(sorted, x)
             ELSE Append(InsertByOrder(x, SubSeq(sorted, 1, Len(sorted) - 1)), last)

RECURSIVE SortPrefix(_, _)
SortPrefix(items, n) ==
    IF n = 0 THEN <<>> ELSE InsertByOrder(items[n], SortPrefix(items, n - 1))

\* Mutant: the fetched order is kept.
SortByOrder_Unsorted(items) == items

\* Array.prototype.sort with the comparator above: stable.
SortByOrder(items) == SortPrefix(items, Len(items))

----------------------------------------------------------------------------
(* getSeasonWithCategoriesStagesAndRegulations                              *)

GswPipeline1(seasonId) ==
    <<HGetAllCmd(seasonKey(seasonId)), SMembersCmd(categoriesSetKey(seasonId)),
      SMembersCmd(stagesSetKey(seasonId)), SMembersCmd(regulationsSetKey(seasonId))>>

\* the ids a child fetch is issued for: none when the guard
\* `!err && ids && ids.length > 0` fails
IdsToFetch(res) == IF IdsMissing(res) THEN <<>> ELSE res.data

\* Mutant: the stage ids are taken from the categories pair.
GswAfterFirst_StagesFromCategories(reply) ==
    IF reply.kind = "reject" THEN [act |-> "end", ret |-> Thrown]
    ELSE IF reply.kind = "null" \/ Len(reply.results) < 4 THEN [act |-> "end", ret |-> ReturnNull]
    ELSE IF HashMissing(reply.results[1]) THEN [act |-> "end", ret |-> ReturnNull]
    ELSE [act |-> "children",
          loc |-> [op |-> "gsw",
                   season |-> parseHashData(reply.results[1].data),
                   categoryIds |-> IdsToFetch(reply.results[2]),
                   stageIds |-> IdsToFetch(reply.results[2]),
                   regulationIds |-> IdsToFetch(reply.results[4]),
                   categories |-> <<>>, stages |-> <<>>, regulations |-> <<>>]]

\* From the first `await pipeline1.exec()` up to the child fetches.
GswAfterFirst(reply) ==
    IF reply.kind = "reject" THEN [act |-> "end", ret |-> Thrown]
    ELSE IF reply.kind = "null" \/ Len(reply.results) < 4 THEN [act |-> "end", ret |-> ReturnNull]
    ELSE IF HashMissing(reply.results[1]) THEN [act |-> "end", ret |-> ReturnNull]
    ELSE [act |-> "children",
          loc |-> [op |-> "gsw",
                   season |-> parseHashData(reply.results[1].data),
                   categoryIds |-> IdsToFetch(reply.results[2]),
                   stageIds |-> IdsToFetch(reply.results[3]),
                   regulationIds |-> IdsToFetch(reply.results[4]),
                   categories |-> <<>>, stages |-> <<>>, regulations |-> <<>>]]

\* return { ...season, categories, stages, regulations };
GswResult(l) ==
    WithField(WithField(WithField(l.season, "categories", l.categories),
                        "stages", l.stages), "regulations", l.regulations)

\* Mutant: every child type is fetched, its index empty or not.
GswNextFetch_NoGuard(l, from) == IF from <= 4 THEN from ELSE 5

\* The child fetches are the awaits 2 (categories), 3 (stages) and 4
\* (regulations); this is the first of them, from `from` on, whose guard holds,
\* or 5 when the return statement is next.
GswNextFetch(l, from) ==
    IF from <= 2 /\ l.categoryIds # <<>> THEN 2
    ELSE IF from <= 3 /\ l.stageIds # <<>> THEN 3
    ELSE IF from <= 4 /\ l.regulationIds # <<>> THEN 4
    ELSE 5

GswPc(n) == IF n = 2 THEN "gsw2" ELSE IF n = 3 THEN "gsw3" ELSE "gsw4"

GswBatch(l, n) ==
    IF n = 2 THEN HashBatch(categoryKey, l.categoryIds)
    ELSE IF n = 3 THEN HashBatch(stageKey, l.stageIds)
    ELSE HashBatch(regulationKey, l.regulationIds)

\* The records one child fetch contributes: none when exec() resolved to null.
ChildRecords(reply) == IF reply.kind = "null" THEN <<>> ELSE DecodeKept(reply.results)

\* Run on from child fetch `from` with the locals l and the round trips tr.
GswProceed(l, from, tr) ==
    LET n == GswNextFetch(l, from)
    IN  /\ loc' = l
        /\ IF n = 5
           THEN /\ pc' = "done"
                /\ ret' = ReturnValue(GswResult(l))
                /\ trips' = tr
           ELSE /\ pc' = GswPc(n)
                /\ ret' = ret
                /\ trips' = Append(tr, [batch |-> GswBatch(l, n), reply |-> Pending])

\* A rejected exec() ends the call with the exception.
GswThrow(tr) ==
    /\ pc' = "done"
    /\ ret' = Thrown
    /\ trips' = tr
    /\ loc' = loc

getSeasonWithCategoriesStagesAndRegulations_Call(seasonId) ==
    /\ pc = "idle"
    /\ pc' = "gsw1"
    /\ call' = [op |-> "getSeasonWithCategoriesStagesAndRegulations", arg |-> seasonId]
    /\ trips' = Issue(GswPipeline1(seasonId))
    /\ loc' = NoLoc
    /\ ret' = NoRet
    /\ UNCHANGED <<hashes, sets, strings, chain>>

getSeasonWithCategoriesStagesAndRegulations_First(kind, errs) ==
    /\ pc = "gsw1"
    /\ LET reply == Reply(LastBatch, kind, errs)
           d == GswAfterFirst(reply)
       IN  IF d.act = "children"
           THEN GswProceed(d.loc, 2, Answered(reply))
           ELSE /\ pc' = "done"
                /\ ret' = d.ret
                /\ trips' = Answered(reply)
                /\ loc' = loc
    /\ UNCHANGED <<hashes, sets, strings, call, chain>>

getSeasonWithCategoriesStagesAndRegulations_Categories(kind, errs) ==
    /\ pc = "gsw2"
    /\ LET reply == Reply(LastBatch, kind, errs)
       IN  IF kind = "reject" THEN GswThrow(Answered(reply))
           ELSE GswProceed([loc EXCEPT !.categories = ChildRecords(reply)], 3, Answered(reply))
    /\ UNCHANGED <<hashes, sets, strings, call, chain>>

getSeasonWithCategoriesStagesAndRegulations_Stages(kind, errs) ==
    /\ pc = "gsw3"
    /\ LET reply == Reply(LastBatch, kind, errs)
       IN  IF kind = "reject" THEN GswThrow(Answered(reply))
           ELSE GswProceed([loc EXCEPT !.stages = ChildRecords(reply)], 4, Answered(reply))
    /\ UNCHANGED <<hashes, sets, strings, call, chain>>

getSeasonWithCategoriesStagesAndRegulations_Regulations(kind, errs) ==
    /\ pc = "gsw4"
    /\ LET reply == Reply(LastBatch, kind, errs)
       IN  IF kind = "reject" THEN GswThrow(Answered(reply))
           ELSE GswProceed([loc EXCEPT !.regulations = SortByOrder(ChildRecords(reply))],
                           5, Answered(reply))
    /\ UNCHANGED <<hashes, sets, strings, call, chain>>

----------------------------------------------------------------------------
(* getMultipleHashes and getHash                                            *)

\* Mutant: the keys are read one by one, a round trip each.
GmhTrips_PerKey(keys) ==
    [i \in 1..Len(keys) |-> [batch |-> <<HGetAllCmd(keys[i])>>, reply |-> Pending]]

\* The round trips getMultipleHashes issues: none for no key
\* (`if (keys.length === 0) return []`), else one pipeline of one HGETALL per key.
GmhTrips(keys) ==
    IF Len(keys) = 0 THEN <<>>
    ELSE <<[batch |-> [i \in 1..Len(keys) |-> HGetAllCmd(keys[i])], reply |-> Pending]>>

\* Mutant: a _redisKey field stored in the field-map wins over the tag.
GmhTag_KeepStored(parsed, key) ==
    IF "_redisKey" \in DOMAIN parsed THEN parsed ELSE WithField(parsed, "_redisKey", Str(key))

\* parsed._redisKey = keys[index];
GmhTag(parsed, key) == WithField(parsed, "_redisKey", Str(key))

\* Mutant: a field-map with an invalid integer, an invalid date or malformed
\* JSON makes the decode raise, and the catch gives null for the key.
GmhMap_DropUndecodable(keys, results) ==
    [index \in 1..Len(results) |->
        IF HashMissing(results[index]) THEN Null
        ELSE LET parsed == parseHashData(results[index].data)
                 raw == results[index].data
             IN  IF \/ \E f \in DOMAIN parsed : parsed[f] \in {NaN, InvalidDate}
                    \/ \E f \in DOMAIN raw \cap JsonFields : raw[f] # "" /\ ~JSONParse(raw[f]).ok
                 THEN Null
                 ELSE GmhTag(parsed, keys[index])]

\* results.map((result, index) => ...); parseHashData raises nothing on a
\* field-map of strings, so the catch branch has no case here.
GmhMap(keys, results) ==
    [index \in 1..Len(results) |->
        IF HashMissing(results[index]) THEN Null
        ELSE GmhTag(parseHashData(results[index].data), keys[index])]

\* Mutant: one command error makes the whole batch come back empty.
GmhAfter_AbortOnError(keys, reply) ==
    IF reply.kind = "reject" THEN Thrown
    ELSE IF reply.kind = "null" THEN ReturnValue(<<>>)
    ELSE IF \E i \in 1..Len(reply.results) : reply.results[i].err THEN ReturnValue(<<>>)
    ELSE ReturnValue(FilterNotNull(GmhMap(keys, reply.results)))

\* From `await pipeline.exec()` to the return.
GmhAfter(keys, reply) ==
    IF reply.kind = "reject" THEN Thrown
    ELSE IF reply.kind = "null" THEN ReturnValue(<<>>)
    ELSE ReturnValue(FilterNotNull(GmhMap(keys, reply.results)))

getMultipleHashes_Call(keys) ==
    /\ pc = "idle"
    /\ call' = [op |-> "getMultipleHashes", arg |-> keys]
    /\ trips' = GmhTrips(keys)
    /\ loc' = [op |-> "gmh", keys |-> keys]
    /\ IF GmhTrips(keys) = <<>>
       THEN pc' = "done" /\ ret' = ReturnValue(<<>>)
       ELSE pc' = "gmh1" /\ ret' = NoRet
    /\ UNCHANGED <<hashes, sets, strings, chain>>

getMultipleHashes_Reply(kind, errs) ==
    /\ pc = "gmh1"
    /\ pc' = "done"
    /\ LET reply == Reply(LastBatch, kind, errs)
       IN  /\ ret' = GmhAfter(loc.keys, reply)
           /\ trips' = Answered(reply)
    /\ UNCHANGED <<hashes, sets, strings, call, loc, chain>>

\* getHash: `await redisClient.hgetall(key)` either resolves to the field-map
\* (kind "array", one result) or rejects; the catch block logs and returns null.
GetHashAfter(reply) ==
    IF reply.kind = "reject" THEN ReturnNull
    ELSE IF IsEmptyMap(reply.results[1].data) THEN ReturnNull
    ELSE ReturnValue(parseHashData(reply.results[1].data))

getHash_Call(key) ==
    /\ pc = "idle"
    /\ pc' = "gh1"
    /\ call' = [op |-> "getHash", arg |-> key]
    /\ trips' = Issue(<<HGetAllCmd(key)>>)
    /\ loc' = NoLoc
    /\ ret' = NoRet
    /\ UNCHANGED <<hashes, sets, strings, chain>>

getHash_Reply(kind) ==
    /\ pc = "gh1"
    /\ pc' = "done"
    /\ LET reply == Reply(LastBatch, kind, NoErrs)
       IN  /\ ret' = GetHashAfter(reply)
           /\ trips' = Answered(reply)
    /\ UNCHANGED <<hashes, sets, strings, call, loc, chain>>

----------------------------------------------------------------------------
(* The decoder on its own, and the ingestion process that writes the store. *)

\* parseHashData(hashData) is synchronous: it runs from call to return in one
\* step and issues no command. loc keeps the previous decode, if the caller
\* has not yet gone back to idle, so that two runs can be compared.
parseHashData_Call(hashData) ==
    /\ pc \in {"idle", "done"}
    /\ pc' = "done"
    /\ call' = [op |-> "parseHashData", arg |-> hashData]
    /\ ret' = ReturnValue(parseHashData(hashData))
    /\ loc' = [op |-> "decode",
               prev |-> IF pc = "done" THEN <<[arg |-> call.arg, val |-> ret.val]>> ELSE <<>>]
    /\ UNCHANGED <<hashes, sets, strings, trips, chain>>

\* The ingestion process (brk-backend) replaces the field-map of a key.
IngestionWrite(key, fields) ==
    /\ key \in DOMAIN hashes
    /\ hashes[key] # fields
    /\ hashes' = [hashes EXCEPT ![key] = fields]
    /\ UNCHANGED <<sets, strings, pc, call, loc, ret, trips, chain>>

\* The ingestion process replaces the members of an index.
IngestionIndexWrite(key, members) ==
    /\ key \in DOMAIN sets
    /\ sets[key] # members
    /\ sets' = [sets EXCEPT ![key] = members]
    /\ UNCHANGED <<hashes, strings, pc, call, loc, ret, trips, chain>>

----------------------------------------------------------------------------
(* getSetMembers and getMultipleSets                                        *)

\* getSetMembers: `await redisClient.smembers(key)` resolves to the members or
\* rejects; the catch block logs and returns [].
GetSetMembersAfter(reply) ==
    IF reply.kind = "reject" THEN ReturnValue(<<>>) ELSE ReturnValue(reply.results[1].data)

getSetMembers_Call(key) ==
    /\ pc = "idle"
    /\ pc' = "gsm1"
    /\ call' = [op |-> "getSetMembers", arg |-> key]
    /\ trips' = Issue(<<SMembersCmd(key)>>)
    /\ loc' = NoLoc
    /\ ret' = NoRet
    /\ UNCHANGED <<hashes, sets, strings, chain>>

getSetMembers_Reply(kind) ==
    /\ pc = "gsm1"
    /\ pc' = "done"
    /\ LET reply == Reply(LastBatch, kind, NoErrs)
       IN  /\ ret' = GetSetMembersAfter(reply)
           /\ trips' = Answered(reply)
    /\ UNCHANGED <<hashes, sets, strings, call, loc, chain>>

\* The round trips getMultipleSets issues: none for no key
\* (`if (keys.length === 0) return {}`), else one pipeline of one SMEMBERS per key.
GmsTrips(keys) ==
    IF Len(keys) = 0 THEN <<>>
    ELSE <<[batch |-> [i \in 1..Len(keys) |-> SMembersCmd(keys[i])], reply |-> Pending]>>

\* Mutant: an index without members gets no entry.
GmsEntries_SkipEmpty(keys, results) ==
    LET ok == {i \in 1..Len(results) : ~results[i].err /\ Len(results[i].data) > 0}
    IN  [k \in {keys[i] : i \in ok} |->
            results[CHOOSE i \in ok : keys[i] = k /\ \A j \in ok : keys[j] = k => j <= i].data]

\* results.forEach: `if (!err && data) setsData[keys[index]] = data`; the data
\* of SMEMBERS is an array, truthy also when empty; a later pair of the same
\* key overwrites an earlier one.
GmsEntries(keys, results) ==
    LET ok == {i \in 1..Len(results) : ~results[i].err}
    IN  [k \in {keys[i] : i \in ok} |->
            results[CHOOSE i \in ok : keys[i] = k /\ \A j \in ok : keys[j] = k => j <= i].data]

\* From `await pipeline.exec()` to the return.
GmsAfter(keys, reply) ==
    IF reply.kind = "reject" THEN Thrown
    ELSE IF reply.kind = "null" THEN ReturnValue(EmptyMap)
    ELSE ReturnValue(GmsEntries(keys, reply.results))

getMultipleSets_Call(keys) ==
    /\ pc = "idle"
    /\ call' = [op |-> "getMultipleSets", arg |-> keys]
    /\ trips' = GmsTrips(keys)
    /\ loc' = [op |-> "gms", keys |-> keys]
    /\ IF GmsTrips(keys) = <<>>
       THEN pc' = "done" /\ ret' = ReturnValue(EmptyMap)
       ELSE pc' = "gms1" /\ ret' = NoRet
    /\ UNCHANGED <<hashes, sets, strings, chain>>

getMultipleSets_Reply(kind, errs) ==
    /\ pc = "gms1"
    /\ pc' = "done"
    /\ LET reply == Reply(LastBatch, kind, errs)
       IN  /\ ret' = GmsAfter(loc.keys, reply)
           /\ trips' = Answered(reply)
    /\ UNCHANGED <<hashes, sets, strings, call, loc, chain>>

----------------------------------------------------------------------------
(* getSeasonRegulations: the whole body is inside one try block whose catch *)
(* logs and returns [].                                                     *)

\* From `await redisClient.smembers(...)` to the second await or the return.
GsrAfterMembers(reply) ==
    IF reply.kind = "reject" THEN [act |-> "end", ret |-> ReturnValue(<<>>)]
    ELSE IF Len(reply.results[1].data) = 0 THEN [act |-> "end", ret |-> ReturnValue(<<>>)]
    ELSE [act |-> "fetch", regulationIds |-> reply.results[1].data]

\* Mutant: the regulations come back in the order of the index.
GsrAfterFetch_Unsorted(reply) ==
    IF reply.kind \in {"reject", "null"} THEN ReturnValue(<<>>)
    ELSE ReturnValue(DecodeKept(reply.results))

\* From `await pipeline.exec()` to the return.
GsrAfterFetch(reply) ==
    IF reply.kind \in {"reject", "null"} THEN ReturnValue(<<>>)
    ELSE ReturnValue(SortByOrder(DecodeKept(reply.results)))

getSeasonRegulations_Call(seasonId) ==
    /\ pc = "idle"
    /\ pc' = "gsr1"
    /\ call' = [op |-> "getSeasonRegulations", arg |-> seasonId]
    /\ trips' = Issue(<<SMembersCmd(regulationsSetKey(seasonId))>>)
    /\ loc' = NoLoc
    /\ ret' = NoRet
    /\ UNCHANGED <<hashes, sets, strings, chain>>

\* A caller that holds the outcome of
\* getSeasonWithCategoriesStagesAndRegulations(seasonId) calls
\* getSeasonRegulations(seasonId) next; loc keeps the earlier outcome and its
\* round trips, so that the two can be compared.
getSeasonRegulations_CallAfter(seasonId) ==
    /\ pc = "done"
    /\ call = [op |-> "getSeasonWithCategoriesStagesAndRegulations", arg |-> seasonId]
    /\ pc' = "gsr1"
    /\ call' = [op |-> "getSeasonRegulations", arg |-> seasonId]
    /\ trips' = <<[batch |-> <<SMembersCmd(regulationsSetKey(seasonId))>>, reply |-> Pending]>>
    /\ loc' = [op |-> "after", prev |-> ret, prevTrips |-> trips]
    /\ ret' = NoRet
    /\ UNCHANGED <<hashes, sets, strings, chain>>

getSeasonRegulations_Members(kind) ==
    /\ pc = "gsr1"
    /\ LET reply == Reply(LastBatch, kind, NoErrs)
           d == GsrAfterMembers(reply)
       IN  IF d.act = "fetch"
           THEN /\ pc' = "gsr2"
                /\ ret' = ret
                /\ trips' = Append(Answered(reply),
                                   [batch |-> HashBatch(regulationKey, d.regulationIds),
                                    reply |-> Pending])
           ELSE /\ pc' = "done"
                /\ ret' = d.ret
                /\ trips' = Answered(reply)
    /\ UNCHANGED <<hashes, sets, strings, call, loc, chain>>

getSeasonRegulations_Fetch(kind, errs) ==
    /\ pc = "gsr2"
    /\ pc' = "done"
    /\ LET reply == Reply(LastBatch, kind, errs)
       IN  /\ ret' = GsrAfterFetch(reply)
           /\ trips' = Answered(reply)
    /\ UNCHANGED <<hashes, sets, strings, call, loc, chain>>

----------------------------------------------------------------------------
(* scanKeys, getMultiple and healthCheck. A request handler that awaits one *)
(* of them goes on from where the operation ends; ScanEnd and GmEnd say how *)
(* (they are defined with the handlers below).                              *)

\* The key patterns are `<prefix>:*`; the prefix of the keys of the model.
KeyPrefix(key) ==
    CASE key \in {"club:a", "club:b"} -> "club"
      [] key \in {"clubs:a", "clubs:b"} -> "clubs"
      [] key \in {"season:s1", "season:s2"} -> "season"
      [] key \in {"user:u1", "user:u2"} -> "user"
      [] OTHER -> "other"

\* the keys the store holds
ExistingKeys == DOMAIN strings \cup {k \in DOMAIN hashes : ~IsEmptyMap(hashes[k])}

\* the keys SCAN ... MATCH pattern can report
MatchedBy(pattern) == {k \in ExistingKeys : KeyPrefix(k) \o ":*" = pattern}

ScanCmd(pattern, cursor) == [cmd |-> "scan", key |-> pattern, cursor |-> cursor]

\* The store's answer to one SCAN: [nextCursor, matchedKeys], or a rejection.
ScanReply(kind, nextCursor, matchedKeys) ==
    IF kind = "reject" THEN [kind |-> "reject", results |-> <<>>]
    ELSE [kind |-> "array",
          results |-> <<[err |-> FALSE, data |-> [cursor |-> nextCursor, keys |-> matchedKeys]]>>]

\* the cursors of the store; "0" ends the iteration
Cursors == {"0", "17"}

\* the pages a SCAN can bring: up to MaxPageKeys matching keys, a key possibly
\* more than once
Pages(pattern) == UNION {[1..n -> MatchedBy(pattern)] : n \in 0..MaxPageKeys}

\* the pattern of the scan in progress
ScanPattern == IF pc = "scan" THEN loc.pattern ELSE ""

\* let cursor = '0'; const keys = []; first `await redisClient.scan(cursor, ...)`
ScanStart(pattern) ==
    /\ pc' = "scan"
    /\ loc' = [op |-> "scan", pattern |-> pattern, cursor |-> "0", keys |-> <<>>]
    /\ trips' = Issue(<<ScanCmd(pattern, "0")>>)
    /\ ret' = NoRet

\* Mutant: the scan goes on from cursor '0' again instead of the returned one.
ScanNextCursor_Restart(nextCursor) == "0"

\* cursor = nextCursor
ScanNextCursor(nextCursor) == nextCursor

\* keys.push(...matchedKeys)
ScanPush(keys, matchedKeys) == keys \o matchedKeys

\* getMultiple: none for no key, else one pipeline of one GET per key.
GmTrips(keys) ==
    IF Len(keys) = 0 THEN <<>>
    ELSE <<[batch |-> [i \in 1..Len(keys) |-> GetCmd(keys[i])], reply |-> Pending]>>

\* `if (err || !data) return null`: null and the empty string are falsy.
ValueMissing(res) == res.err \/ res.data = NoValue \/ res.data.v = ""

\* JSON.parse(data); parsed._redisKey = keys[index]: a SyntaxError, and the
\* TypeError of setting a property on null or (strict mode) on a number or a
\* boolean, are caught and give null; an array keeps its elements.
GmDecode(text, key) ==
    LET p == JSONParse(text)
    IN  IF ~p.ok THEN Null
        ELSE IF p.v.t = "object" THEN Obj(WithField(p.v.v, "_redisKey", Str(key)))
        ELSE IF p.v.t = "array" THEN p.v
        ELSE Null

GmMap(keys, results) ==
    [index \in 1..Len(results) |->
        IF ValueMissing(results[index]) THEN Null
        ELSE GmDecode(results[index].data.v, keys[index])]

\* From `await pipeline.exec()` to the return.
GmAfter(keys, reply) ==
    IF reply.kind = "reject" THEN Thrown
    ELSE IF reply.kind = "null" THEN ReturnValue(<<>>)
    ELSE ReturnValue(FilterNotNull(GmMap(keys, reply.results)))

\* healthCheck: `await redisClient.ping()`; the catch logs and returns false.
HealthAfter(reply) ==
    IF reply.kind = "reject" THEN ReturnValue(FALSE)
    ELSE ReturnValue(reply.results[1].data = "PONG")

healthCheck_Call ==
    /\ pc = "idle"
    /\ pc' = "ping"
    /\ call' = [op |-> "healthCheck", arg |-> ""]
    /\ trips' = Issue(<<[cmd |-> "ping", key |-> ""]>>)
    /\ loc' = NoLoc
    /\ ret' = NoRet
    /\ UNCHANGED <<hashes, sets, strings, chain>>

healthCheck_Reply(kind) ==
    /\ pc = "ping"
    /\ pc' = "done"
    /\ LET reply == Reply(LastBatch, kind, NoErrs)
       IN  /\ ret' = HealthAfter(reply)
           /\ trips' = Answered(reply)
    /\ UNCHANGED <<hashes, sets, strings, call, loc, chain>>

----------------------------------------------------------------------------
(* The request handlers of the generic and club routes. There are two       *)
(* generations of the generic cache routes: the scalar one of               *)
(* unnamed/part_004, which reads JSON strings only, and the one of          *)
(* routes/cache.routes.ts, which tries the field-map first.                 *)

\* res.status(status).json(body)
Respond(status, body) == [kind |-> "response", status |-> status, body |-> body]

ErrorBody == [error |-> TRUE]

ScalarPrefixOp == "GET /cache/:prefix (part_004)"
ScalarItemOp == "GET /cache/:prefix/:id (part_004)"
CachePrefixOp == "GET /cache/:prefix"
CacheItemOp == "GET /cache/:prefix/:id"
ClubByIdOp == "GET /clubs/id/:id"

\* ['championship', 'season', 'category', 'stage'].includes(prefix)
OptimizedPrefixes == {"championship", "season", "category", "stage"}

\* the call ends with outcome r after the round trips tr
Finish(r, tr) ==
    /\ pc' = "done"
    /\ ret' = r
    /\ trips' = tr
    /\ loc' = loc

\* scanKeys has thrown: the exception leaves scanKeys, and the catch of a
\* handler answers 500.
ScanThrew(tr) ==
    Finish(IF call.op = "scanKeys" THEN Thrown ELSE Respond(500, ErrorBody), tr)

\* scanKeys has returned keys: the caller of scanKeys gets them; a handler
\* answers 404 for no key and else reads the values, the scalar generation
\* by getMultiple and the other by getMultipleHashes first.
ScanEnd(keys, tr) ==
    IF call.op = "scanKeys" THEN Finish(ReturnValue(keys), tr)
    ELSE IF Len(keys) = 0 THEN Finish(Respond(404, ErrorBody), tr)
    ELSE IF call.op = ScalarPrefixOp
    THEN /\ pc' = "gm1"
         /\ loc' = [op |-> "gm", keys |-> keys]
         /\ trips' = tr \o GmTrips(keys)
         /\ ret' = ret
    ELSE /\ pc' = "prefix_hashes"
         /\ loc' = [op |-> "gmh", keys |-> keys]
         /\ trips' = tr \o GmhTrips(keys)
         /\ ret' = ret

scanKeys_Call(pattern) ==
    /\ pc = "idle"
    /\ call' = [op |-> "scanKeys", arg |-> pattern]
    /\ ScanStart(pattern)
    /\ UNCHANGED <<hashes, sets, strings, chain>>

\* One turn of the do-while loop, from the answer of SCAN to the next SCAN or
\* to the return. The store's cursor sequence is cut at MaxPages pages, and
\* the pages of one scan bring at most MaxKeys keys together.
scanKeys_Page(kind, nextCursor, matchedKeys) ==
    /\ pc = "scan"
    /\ kind = "array" => (nextCursor = "0" \/ RoundTrips < MaxPages)
    /\ Len(loc.keys) + Len(matchedKeys) <= MaxKeys
    /\ LET tr == Answered(ScanReply(kind, nextCursor, matchedKeys))
           keys == ScanPush(loc.keys, matchedKeys)
           cursor == ScanNextCursor(nextCursor)
       IN  IF kind = "reject" THEN ScanThrew(tr)
           ELSE IF cursor # "0"
           THEN /\ pc' = "scan"
                /\ loc' = [loc EXCEPT !.cursor = cursor, !.keys = keys]
                /\ trips' = Append(tr, [batch |-> <<ScanCmd(loc.pattern, cursor)>>,
                                        reply |-> Pending])
                /\ ret' = ret
           ELSE ScanEnd(keys, tr)
    /\ UNCHANGED <<hashes, sets, strings, call, chain>>

getMultiple_Call(keys) ==
    /\ pc = "idle"
    /\ call' = [op |-> "getMultiple", arg |-> keys]
    /\ trips' = GmTrips(keys)
    /\ loc' = [op |-> "gm", keys |-> keys]
    /\ IF GmTrips(keys) = <<>>
       THEN pc' = "done" /\ ret' = ReturnValue(<<>>)
       ELSE pc' = "gm1" /\ ret' = NoRet
    /\ UNCHANGED <<hashes, sets, strings, chain>>

\* res.json({ count: data.length, data })
Listing(data) == Respond(200, [count |-> Len(data), data |-> data])

\* getMultiple has ended: its caller gets the outcome; a handler answers 200
\* with the list, and 500 from its catch.
GmEnd(out, tr) ==
    IF call.op = "getMultiple" THEN Finish(out, tr)
    ELSE IF out = Thrown THEN Finish(Respond(500, ErrorBody), tr)
    ELSE Finish(Listing(out.val), tr)

getMultiple_Reply(kind, errs) ==
    /\ pc = "gm1"
    /\ LET reply == Reply(LastBatch, kind, errs)
       IN  GmEnd(GmAfter(loc.keys, reply), Answered(reply))
    /\ UNCHANGED <<hashes, sets, strings, call, chain>>

\* GET /cache/:prefix of unnamed/part_004
ScalarPrefixRoute_Request(prefix) ==
    /\ pc = "idle"
    /\ call' = [op |-> ScalarPrefixOp, arg |-> prefix]
    /\ IF prefix = ""
       THEN pc' = "done" /\ ret' = Respond(400, ErrorBody) /\ trips' = <<>> /\ loc' = NoLoc
       ELSE ScanStart(prefix \o ":*")
    /\ UNCHANGED <<hashes, sets, strings, chain>>

\* GET /cache/:prefix of routes/cache.routes.ts
CachePrefixRoute_Request(prefix) ==
    /\ pc = "idle"
    /\ call' = [op |-> CachePrefixOp, arg |-> prefix]
    /\ IF prefix = "" \/ prefix \in OptimizedPrefixes
       THEN pc' = "done" /\ ret' = Respond(400, ErrorBody) /\ trips' = <<>> /\ loc' = NoLoc
       ELSE ScanStart(prefix \o ":*")
    /\ UNCHANGED <<hashes, sets, strings, chain>>

\* `const hashData = await RedisUtils.getMultipleHashes(keys)`: the list when
\* it is not empty, else the fallback to getMultiple.
CachePrefixRoute_Hashes(kind, errs) ==
    /\ pc = "prefix_hashes"
    /\ LET reply == Reply(LastBatch, kind, errs)
           out == GmhAfter(loc.keys, reply)
           tr == Answered(reply)
       IN  IF out = Thrown THEN Finish(Respond(500, ErrorBody), tr)
           ELSE IF Len(out.val) > 0 THEN Finish(Listing(out.val), tr)
           ELSE /\ pc' = "gm1"
                /\ loc' = [op |-> "gm", keys |-> loc.keys]
                /\ trips' = tr \o GmTrips(loc.keys)
                /\ ret' = ret
    /\ UNCHANGED <<hashes, sets, strings, call, chain>>

\* `${prefix}:${id}` and `${CLUB_KEY_PREFIX}${id}`
ItemKey(prefix, id) == prefix \o ":" \o id
CLUB_KEY_PREFIX == "clubs:"

\* the handler reads the scalar value of the key: `await redisClient.get(key)`
ItemGet(key, tr) ==
    /\ pc' = "item_get"
    /\ loc' = [op |-> "item", key |-> key]
    /\ trips' = Append(tr, [batch |-> <<GetCmd(key)>>, reply |-> Pending])
    /\ ret' = NoRet

\* res.json(JSON.parse(value)) in the scalar generation and in the club
\* route, res.json({ data: JSON.parse(value), ... }) in the other
ItemBody(v) == IF call.op = CacheItemOp THEN [data |-> v] ELSE v

\* Mutant: a rejected read is answered like an absent value.
ItemAfterGet_NotFoundOnFailure(reply) ==
    IF reply.kind = "reject" THEN Respond(404, ErrorBody)
    ELSE IF ValueMissing(reply.results[1])
    THEN Respond(404, ErrorBody)
    ELSE LET p == JSONParse(reply.results[1].data.v)
         IN  IF p.ok THEN Respond(200, ItemBody(p.v)) ELSE Respond(500, ErrorBody)

\* From `await redisClient.get(key)` to the response, the same in the three
\* handlers: a rejection and the SyntaxError of JSON.parse reach the catch
\* (500), a null or empty value is 404.
ItemAfterGet(reply) ==
    IF reply.kind = "reject" THEN Respond(500, ErrorBody)
    ELSE IF ValueMissing(reply.results[1])
    THEN Respond(404, ErrorBody)
    ELSE LET p == JSONParse(reply.results[1].data.v)
         IN  IF p.ok THEN Respond(200, ItemBody(p.v)) ELSE Respond(500, ErrorBody)

\* GET /cache/:prefix/:id of unnamed/part_004
ScalarItemRoute_Request(prefix, id) ==
    /\ pc = "idle"
    /\ call' = [op |-> ScalarItemOp, arg |-> <<prefix, id>>]
    /\ IF prefix = "" \/ id = ""
       THEN pc' = "done" /\ ret' = Respond(400, ErrorBody) /\ trips' = <<>> /\ loc' = NoLoc
       ELSE ItemGet(ItemKey(prefix, id), trips)
    /\ UNCHANGED <<hashes, sets, strings, chain>>

\* GET /clubs/id/:id: the handler has no check of id; ClubController.getClubById
\* reads the scalar value and rethrows what it catches.
ClubByIdRoute_Request(id) ==
    /\ pc = "idle"
    /\ call' = [op |-> ClubByIdOp, arg |-> id]
    /\ ItemGet(CLUB_KEY_PREFIX \o id, trips)
    /\ UNCHANGED <<hashes, sets, strings, chain>>

\* GET /cache/:prefix/:id of routes/cache.routes.ts: the field-map first
CacheItemRoute_Request(prefix, id) ==
    /\ pc = "idle"
    /\ call' = [op |-> CacheItemOp, arg |-> <<prefix, id>>]
    /\ IF prefix = "" \/ id = "" \/ prefix \in OptimizedPrefixes
       THEN pc' = "done" /\ ret' = Respond(400, ErrorBody) /\ trips' = <<>> /\ loc' = NoLoc
       ELSE /\ pc' = "item_hash"
            /\ loc' = [op |-> "item", key |-> ItemKey(prefix, id)]
            /\ trips' = Issue(<<HGetAllCmd(ItemKey(prefix, id))>>)
            /\ ret' = NoRet
    /\ UNCHANGED <<hashes, sets, strings, chain>>

\* `const hashData = await RedisUtils.getHash(key)`: 200 with the record, else
\* (no record, or getHash caught a failure) the scalar read.
CacheItemRoute_Hash(kind) ==
    /\ pc = "item_hash"
    /\ LET reply == Reply(LastBatch, kind, NoErrs)
           hashData == GetHashAfter(reply)
           tr == Answered(reply)
       IN  IF hashData.kind = "value"
           THEN Finish(Respond(200, [data |-> hashData.val]), tr)
           ELSE ItemGet(loc.key, tr)
    /\ UNCHANGED <<hashes, sets, strings, call, chain>>

\* The answer of the scalar read of an item, in the three handlers; the
\* promise of a single command is rejected by an error reply as well.
ItemRoute_Value(kind) ==
    /\ pc = "item_get"
    /\ LET reply == Reply(LastBatch, IF WrongType(LastBatch[1]) THEN "reject" ELSE kind, NoErrs)
       IN  Finish(ItemAfterGet(reply), Answered(reply))
    /\ UNCHANGED <<hashes, sets, strings, call, chain>>

----------------------------------------------------------------------------
(* The chained three-level query: the championship and its seasons by       *)
(* getChampionshipWithSeasons, then, for each returned season in turn,      *)
(* getSeasonWithCategoriesStagesAndRegulations on its id. The result is the *)
(* championship with each season replaced by its aggregate.                 *)

ChainedQuery_Call(championshipId) ==
    /\ pc = "idle"
    /\ pc' = "gcws1"
    /\ call' = [op |-> "getChampionshipWithSeasons", arg |-> championshipId]
    /\ trips' = Issue(GcwsPipeline1(championshipId))
    /\ loc' = NoLoc
    /\ ret' = NoRet
    /\ chain' = [phase |-> "championship", id |-> championshipId]
    /\ UNCHANGED <<hashes, sets, strings>>

\* the driver calls the season aggregator for the next season id
ChainStartSeason(seasonId) ==
    /\ pc' = "gsw1"
    /\ call' = [op |-> "getSeasonWithCategoriesStagesAndRegulations", arg |-> seasonId]
    /\ trips' = Issue(GswPipeline1(seasonId))
    /\ loc' = NoLoc
    /\ ret' = NoRet

ChainFinish(out) ==
    /\ chain' = [phase |-> "finished", id |-> chain.id, out |-> out]
    /\ UNCHANGED <<pc, call, trips, loc, ret>>

\* getChampionshipWithSeasons has ended: not found and a failure end the
\* query, else the seasons are visited in the order returned.
ChainedQuery_Seasons ==
    /\ pc = "done"
    /\ chain.phase = "championship"
    /\ IF ret.kind # "value" THEN ChainFinish(ret)
       ELSE IF ret.val.seasons = <<>> THEN ChainFinish(ret)
       ELSE /\ ChainStartSeason(ret.val.seasons[1].id.v)
            /\ chain' = [phase |-> "seasons", id |-> chain.id, championship |-> ret.val,
                         todo |-> [i \in 1..(Len(ret.val.seasons) - 1) |->
                                     ret.val.seasons[i + 1].id.v],
                         seasons |-> <<>>]
    /\ UNCHANGED <<hashes, sets, strings>>

\* One season aggregate has ended: a failure ends the query, a season that is
\* not found is left out, and the next season is called or the result returned.
ChainedQuery_NextSeason ==
    /\ pc = "done"
    /\ chain.phase = "seasons"
    /\ LET seasons == IF ret.kind = "value" THEN Append(chain.seasons, ret.val)
                      ELSE chain.seasons
       IN  IF ret.kind = "throw" THEN ChainFinish(Thrown)
           ELSE IF chain.todo = <<>>
           THEN ChainFinish(ReturnValue(WithField(chain.championship, "seasons", seasons)))
           ELSE /\ ChainStartSeason(Head(chain.todo))
                /\ chain' = [chain EXCEPT !.todo = Tail(@), !.seasons = seasons]
    /\ UNCHANGED <<hashes, sets, strings>>

\* The caller has taken the result; the next request starts from idle.
Return ==
    /\ pc = "done"
    /\ chain.phase \in {"off", "finished"}
    /\ pc' = "idle"
    /\ call' = NoCall
    /\ loc' = NoLoc
    /\ ret' = NoRet
    /\ trips' = <<>>
    /\ chain' = ChainOff
    /\ UNCHANGED <<hashes, sets, strings>>


----------------------------------------------------------------------------
(* Stores. Every record and index is written by the ingestion process, so   *)
(* any content is a state the store can be in; a specification starts from  *)
(* a bounded family of them.                                                *)

\* the sequences of at most n distinct elements of S
NoDupSeqs(S, n) ==
    {q \in UNION {[1..k -> S] : k \in 0..n} : \A i, j \in DOMAIN q : i # j => q[i] # q[j]}

KeyIds ==
    {<<championshipKey(i), i>> : i \in ChampIds} \cup {<<seasonKey(i), i>> : i \in SeasonIds}
    \cup {<<categoryKey(i), i>> : i \in CategoryIds} \cup {<<stageKey(i), i>> : i \in StageIds}
    \cup {<<regulationKey(i), i>> : i \in RegulationIds} \cup {<<userKey(i), i>> : i \in UserIds}

AllHashKeys == {p[1] : p \in KeyIds}

AllSetKeys ==
    {seasonsSetKey(i) : i \in ChampIds} \cup {categoriesSetKey(i) : i \in SeasonIds}
    \cup {stagesSetKey(i) : i \in SeasonIds} \cup {regulationsSetKey(i) : i \in SeasonIds}

\* the field-map the ingestion process writes for the entity of this key
\* (regulation r1 is written with order 2 and r2 with order 1)
RecordAt(key) ==
    LET id == (CHOOSE p \in KeyIds : p[1] = key)[2]
    IN  IF key = regulationKey("r1") THEN [id |-> id, name |-> "n", order |-> "2"]
        ELSE IF key = regulationKey("r2") THEN [id |-> id, name |-> "n", order |-> "1"]
        ELSE [id |-> id, name |-> "n"]

HashesWith(present) == [k \in AllHashKeys |-> IF k \in present THEN RecordAt(k) ELSE EmptyMap]

Idle ==
    /\ pc = "idle"
    /\ call = NoCall
    /\ loc = NoLoc
    /\ ret = NoRet
    /\ trips = <<>>
    /\ chain = ChainOff

\* Championship c1 and its two seasons, each present or absent, under every
\* seasons index.
InitChampionship ==
    /\ \E present \in SUBSET ({championshipKey(i) : i \in ChampIds} \cup {seasonKey(i) : i \in SeasonIds}) :
          hashes = HashesWith(present)
    /\ \E idx \in NoDupSeqs(SeasonIds, MaxMembers) :
          sets = [k \in AllSetKeys |-> IF k = seasonsSetKey("c1") THEN idx ELSE <<>>]
    /\ strings = NoStrings
    /\ Idle

NextChampionship ==
    \/ \E id \in ChampIds : getChampionshipWithSeasons_Call(id)
    \/ \E kind \in ReplyKinds : \E errs \in ErrFlags(kind) : getChampionshipWithSeasons_First(kind, errs)
    \/ \E kind \in ReplyKinds : \E errs \in ErrFlags(kind) : getChampionshipWithSeasons_Second(kind, errs)
    \/ Return

SpecChampionship == InitChampionship /\ [][NextChampionship]_vars

\* Season s1, present or absent, under every categories, stages and
\* regulations index; the second stage and the second regulation may have no
\* record.
InitSeason ==
    /\ \E present \in SUBSET {seasonKey("s1"), stageKey("t2"), regulationKey("r2")} :
          hashes = HashesWith(present \cup {categoryKey("k1"), stageKey("t1"), regulationKey("r1")})
    /\ \E cats \in NoDupSeqs(CategoryIds, MaxMembers) :
       \E stgs \in NoDupSeqs(StageIds, MaxMembers) :
       \E regs \in NoDupSeqs(RegulationIds, MaxMembers) :
          sets = [k \in AllSetKeys |->
                    IF k = categoriesSetKey("s1") THEN cats
                    ELSE IF k = stagesSetKey("s1") THEN stgs
                    ELSE IF k = regulationsSetKey("s1") THEN regs
                    ELSE <<>>]
    /\ strings = NoStrings
    /\ Idle

NextSeason ==
    \/ getSeasonWithCategoriesStagesAndRegulations_Call("s1")
    \/ \E kind \in ReplyKinds : \E errs \in ErrFlags(kind) :
          getSeasonWithCategoriesStagesAndRegulations_First(kind, errs)
    \/ \E kind \in ReplyKinds : \E errs \in ErrFlags(kind) :
          getSeasonWithCategoriesStagesAndRegulations_Categories(kind, errs)
    \/ \E kind \in ReplyKinds : \E errs \in ErrFlags(kind) :
          getSeasonWithCategoriesStagesAndRegulations_Stages(kind, errs)
    \/ \E kind \in ReplyKinds : \E errs \in ErrFlags(kind) :
          getSeasonWithCategoriesStagesAndRegulations_Regulations(kind, errs)
    \/ Return

SpecSeason == InitSeason /\ [][NextSeason]_vars

\* the field-maps a user key can hold: none, a plain one, and one that itself
\* has a field named _redisKey
UserMaps(id) == {EmptyMap, [id |-> id, name |-> "n"], [id |-> id, _redisKey |-> "stale"]}

\* the keys handed to the batch fetcher: the two user keys and one that the
\* store does not hold
BatchKeys == {userKey(i) : i \in UserIds} \cup {"user:u3"}

InitBatch ==
    /\ \E m1 \in UserMaps("u1") : \E m2 \in UserMaps("u2") :
          hashes = [k \in AllHashKeys |->
                      IF k = userKey("u1") THEN m1 ELSE IF k = userKey("u2") THEN m2 ELSE EmptyMap]
    /\ sets = [k \in AllSetKeys |-> <<>>]
    /\ strings = NoStrings
    /\ Idle

NextBatch ==
    \/ \E keys \in UNION {[1..n -> BatchKeys] : n \in 0..MaxKeys} : getMultipleHashes_Call(keys)
    \/ \E kind \in ReplyKinds : \E errs \in ErrFlags(kind) : getMultipleHashes_Reply(kind, errs)
    \/ \E key \in BatchKeys : getHash_Call(key)
    \/ \E kind \in {"array", "reject"} : getHash_Reply(kind)
    \/ Return

SpecBatch == InitBatch /\ [][NextBatch]_vars

\* Both aggregations over the stores of either family.
InitAggregator == InitChampionship \/ InitSeason

NextAggregator ==
    \/ \E id \in ChampIds : getChampionshipWithSeasons_Call(id)
    \/ \E kind \in ReplyKinds : \E errs \in ErrFlags(kind) : getChampionshipWithSeasons_First(kind, errs)
    \/ \E kind \in ReplyKinds : \E errs \in ErrFlags(kind) : getChampionshipWithSeasons_Second(kind, errs)
    \/ getSeasonWithCategoriesStagesAndRegulations_Call("s1")
    \/ \E kind \in ReplyKinds : \E errs \in ErrFlags(kind) :
          getSeasonWithCategoriesStagesAndRegulations_First(kind, errs)
    \/ \E kind \in ReplyKinds : \E errs \in ErrFlags(kind) :
          getSeasonWithCategoriesStagesAndRegulations_Categories(kind, errs)
    \/ \E kind \in ReplyKinds : \E errs \in ErrFlags(kind) :
          getSeasonWithCategoriesStagesAndRegulations_Stages(kind, errs)
    \/ \E kind \in ReplyKinds : \E errs \in ErrFlags(kind) :
          getSeasonWithCategoriesStagesAndRegulations_Regulations(kind, errs)
    \/ Return

SpecAggregator == InitAggregator /\ [][NextAggregator]_vars

\* the index keys handed to the set readers: the stages and regulations
\* indexes of s1 and one index the store does not hold
IndexKeys == {stagesSetKey("s1"), regulationsSetKey("s1"), "season:s9:stages"}

InitSets ==
    /\ hashes = HashesWith({})
    /\ \E stgs \in NoDupSeqs(StageIds, MaxMembers) :
       \E regs \in NoDupSeqs(RegulationIds, MaxMembers) :
          sets = [k \in AllSetKeys |->
                    IF k = stagesSetKey("s1") THEN stgs
                    ELSE IF k = regulationsSetKey("s1") THEN regs
                    ELSE <<>>]
    /\ strings = NoStrings
    /\ Idle

NextSets ==
    \/ \E key \in IndexKeys : getSetMembers_Call(key)
    \/ \E kind \in {"array", "reject"} : getSetMembers_Reply(kind)
    \/ \E keys \in UNION {[1..n -> IndexKeys] : n \in 0..MaxKeys} : getMultipleSets_Call(keys)
    \/ \E kind \in ReplyKinds : \E errs \in ErrFlags(kind) : getMultipleSets_Reply(kind, errs)
    \/ Return

SpecSets == InitSets /\ [][NextSets]_vars

\* The raw values of the field-maps handed to the decoder.
BoolRaw == {"true", "1", "false", "", "0", "TRUE", "yes"}
JsonRaw == {"", "[]", "[1,2]", "{}", "null", "{", "[1,", "abc"}
IntRaw == {"12", " 42", "-7", "12abc", "abc", ""}
DateRaw == {"2024-01-15", "2024-13-01", "abc", ""}
PlainRaw == {"", "n", "true", "12", "[1,2]", "2024-01-15"}
PlainFields == {"name", "order", "_redisKey"}

\* A record with only plain fields, a record with a field of every decoded
\* kind, and each of the two with one more field: every field name of a kind
\* with some raw values, and one or two field names of the kind with all.
DecoderInputs ==
    LET plain == [id |-> "s1", name |-> "n"]
        rich == [id |-> "s1", name |-> "n", maxPilots |-> "12",
                 startDate |-> "2024-01-15", isActive |-> "1"]
    IN  {plain, rich}
        \cup {WithField(plain, f, v) : f \in BoolFields, v \in BoolRaw}
        \cup {WithField(rich, f, v) : f \in JsonFields, v \in {"", "{", "[1,2]"}}
        \cup {WithField(rich, f, v) : f \in {"sponsors", "classification"}, v \in JsonRaw}
        \cup {WithField(plain, f, "12") : f \in IntFields}
        \cup {WithField(plain, "maxPilots", v) : v \in IntRaw}
        \cup {WithField(plain, f, "2024-01-15") : f \in DateFields}
        \cup {WithField(plain, "startDate", v) : v \in DateRaw}
        \cup {WithField(plain, f, v) : f \in PlainFields, v \in PlainRaw}

InitDecoder ==
    /\ hashes = [k \in {userKey("u1")} |-> EmptyMap]
    /\ sets = [k \in AllSetKeys |-> <<>>]
    /\ strings = NoStrings
    /\ Idle

NextDecoder ==
    \/ \E hashData \in DecoderInputs : parseHashData_Call(hashData)
    \/ \E fields \in {EmptyMap, [id |-> "u1", name |-> "n"]} : IngestionWrite(userKey("u1"), fields)
    \/ Return

SpecDecoder == InitDecoder /\ [][NextDecoder]_vars

\* Season s1 with four regulations under every regulations index: r1 is
\* written with order 3, r2 with order 1 (and may have no record), r3 with
\* order 2 or 1, r4 without order, with the empty order, or with 2 or 10.
OrderedRegulationIds == {"r1", "r2", "r3", "r4"}

Regulation(id, order) == [id |-> id, order |-> order]

InitRegulations ==
    /\ \E m2 \in {EmptyMap, Regulation("r2", "1")} :
       \E o3 \in {"2", "1"} :
       \E m4 \in {[id |-> "r4"], Regulation("r4", ""), Regulation("r4", "2"), Regulation("r4", "10")} :
          hashes = [k \in {seasonKey("s1")} \cup {regulationKey(i) : i \in OrderedRegulationIds} |->
                      IF k = seasonKey("s1") THEN [id |-> "s1", name |-> "n"]
                      ELSE IF k = regulationKey("r1") THEN Regulation("r1", "3")
                      ELSE IF k = regulationKey("r2") THEN m2
                      ELSE IF k = regulationKey("r3") THEN Regulation("r3", o3)
                      ELSE m4]
    /\ \E regs \in NoDupSeqs(OrderedRegulationIds, MaxRegulations) :
          sets = [k \in AllSetKeys |-> IF k = regulationsSetKey("s1") THEN regs ELSE <<>>]
    /\ strings = NoStrings
    /\ Idle

\* the replies of this specification carry no per-command error
NextRegulations ==
    \/ getSeasonWithCategoriesStagesAndRegulations_Call("s1")
    \/ \E kind \in ReplyKinds : getSeasonWithCategoriesStagesAndRegulations_First(kind, NoErrs)
    \/ \E kind \in ReplyKinds : getSeasonWithCategoriesStagesAndRegulations_Regulations(kind, NoErrs)
    \/ getSeasonRegulations_Call("s1")
    \/ \E kind \in {"array", "reject"} : getSeasonRegulations_Members(kind)
    \/ \E kind \in ReplyKinds : getSeasonRegulations_Fetch(kind, NoErrs)
    \/ Return

SpecRegulations == InitRegulations /\ [][NextRegulations]_vars

\* Championship c1 with its seasons index; each season present or absent; the
\* categories and stages of s1 and the stages and regulations of s2 under every
\* index; every child record present.
InitChain ==
    /\ \E present \in SUBSET ({championshipKey(i) : i \in ChampIds} \cup {seasonKey(i) : i \in SeasonIds}) :
          hashes = HashesWith(present \cup {categoryKey(i) : i \in CategoryIds}
                              \cup {stageKey(i) : i \in StageIds}
                              \cup {regulationKey(i) : i \in RegulationIds})
    /\ \E idx \in NoDupSeqs(SeasonIds, MaxMembers) :
       \E cats1 \in NoDupSeqs(CategoryIds, MaxMembers) :
       \E stgs1 \in NoDupSeqs(StageIds, MaxMembers) :
       \E stgs2 \in NoDupSeqs(StageIds, MaxMembers) :
       \E regs2 \in NoDupSeqs(RegulationIds, MaxMembers) :
          sets = [k \in AllSetKeys |->
                    IF k = seasonsSetKey("c1") THEN idx
                    ELSE IF k = categoriesSetKey("s1") THEN cats1
                    ELSE IF k = stagesSetKey("s1") THEN stgs1
                    ELSE IF k = stagesSetKey("s2") THEN stgs2
                    ELSE IF k = regulationsSetKey("s2") THEN regs2
                    ELSE <<>>]
    /\ strings = NoStrings
    /\ Idle

\* the store answers every batch in full or rejects it as a whole
ChainReplyKinds == {"array", "reject"}

NextChain ==
    \/ \E id \in ChampIds : ChainedQuery_Call(id)
    \/ \E kind \in ChainReplyKinds : getChampionshipWithSeasons_First(kind, NoErrs)
    \/ \E kind \in ChainReplyKinds : getChampionshipWithSeasons_Second(kind, NoErrs)
    \/ ChainedQuery_Seasons
    \/ \E kind \in ChainReplyKinds : getSeasonWithCategoriesStagesAndRegulations_First(kind, NoErrs)
    \/ \E kind \in ChainReplyKinds : getSeasonWithCategoriesStagesAndRegulations_Categories(kind, NoErrs)
    \/ \E kind \in ChainReplyKinds : getSeasonWithCategoriesStagesAndRegulations_Stages(kind, NoErrs)
    \/ \E kind \in ChainReplyKinds : getSeasonWithCategoriesStagesAndRegulations_Regulations(kind, NoErrs)
    \/ ChainedQuery_NextSeason
    \/ Return

SpecChain == InitChain /\ [][NextChain]_vars

\* Legacy scalar values (JSON text, one of them malformed, one the JSON null)
\* next to the field-map of user u1: the stores the generic routes, the
\* club route, scanKeys, getMultiple and healthCheck run against.
StringKeys == {"club:a", "club:b", "clubs:a", "season:s1"}

ScalarAt(key, malformed) ==
    IF key \in malformed THEN "{"
    ELSE IF key = "club:b" THEN "null"
    ELSE IF key = "season:s1" THEN DocText("s1")
    ELSE DocText("a")

InitRoutes ==
    /\ \E present \in SUBSET StringKeys : \E malformed \in SUBSET {"club:a"} :
          strings = [k \in present |-> ScalarAt(k, malformed)]
    /\ hashes = HashesWith({userKey("u1")})
    /\ sets = [k \in AllSetKeys |-> <<>>]
    /\ Idle

RoutePrefixes == {"", "club", "season", "user"}
RouteIds == {"", "a", "s1", "u1"}

NextRoutes ==
    \/ \E prefix \in RoutePrefixes : scanKeys_Call(prefix \o ":*")
    \/ \E kind \in {"reject", "array"} : \E nextCursor \in Cursors :
          \E matchedKeys \in Pages(ScanPattern) : scanKeys_Page(kind, nextCursor, matchedKeys)
    \/ \E keys \in NoDupSeqs(StringKeys, MaxKeys - 1) : getMultiple_Call(keys)
    \/ \E kind \in ReplyKinds : \E errs \in ErrFlags(kind) : getMultiple_Reply(kind, errs)
    \/ healthCheck_Call
    \/ \E kind \in {"reject", "array"} : healthCheck_Reply(kind)
    \/ \E prefix \in RoutePrefixes : ScalarPrefixRoute_Request(prefix)
    \/ \E prefix \in RoutePrefixes : CachePrefixRoute_Request(prefix)
    \/ \E kind \in ReplyKinds : \E errs \in ErrFlags(kind) : CachePrefixRoute_Hashes(kind, errs)
    \/ \E prefix \in RoutePrefixes : \E id \in RouteIds : ScalarItemRoute_Request(prefix, id)
    \/ \E prefix \in RoutePrefixes : \E id \in RouteIds : CacheItemRoute_Request(prefix, id)
    \/ \E kind \in {"reject", "array"} : CacheItemRoute_Hash(kind)
    \/ \E id \in RouteIds : ClubByIdRoute_Request(id)
    \/ \E kind \in {"reject", "array"} : ItemRoute_Value(kind)
    \/ Return

SpecRoutes == InitRoutes /\ [][NextRoutes]_vars

\* Every reading operation over one store: all records present, championship
\* c1 under every seasons index, season s1 with its three indexes, and the
\* legacy scalar values.
InitReaders ==
    /\ hashes = HashesWith(AllHashKeys)
    /\ \E idx \in NoDupSeqs(SeasonIds, MaxMembers) :
          sets = [k \in AllSetKeys |->
                    IF k = seasonsSetKey("c1") THEN idx
                    ELSE IF k = categoriesSetKey("s1") THEN <<"k1">>
                    ELSE IF k = stagesSetKey("s1") THEN <<"t2", "t1">>
                    ELSE IF k = regulationsSetKey("s1") THEN <<"r1", "r2">>
                    ELSE <<>>]
    /\ strings = [k \in StringKeys |-> ScalarAt(k, {})]
    /\ Idle

NextReaders ==
    \/ NextRoutes
    \/ NextBatch
    \/ NextSets
    \/ NextAggregator
    \/ getSeasonRegulations_Call("s1")
    \/ \E kind \in {"array", "reject"} : getSeasonRegulations_Members(kind)
    \/ \E kind \in ReplyKinds : \E errs \in ErrFlags(kind) : getSeasonRegulations_Fetch(kind, errs)

SpecReaders == InitReaders /\ [][NextReaders]_vars

\* scanKeys alone. The loop is a sequence of awaits on a live connection:
\* every SCAN sent is answered or rejected, which is the fairness of the
\* page step.
ScanStep ==
    \E kind \in {"reject", "array"} : \E nextCursor \in Cursors :
        \E matchedKeys \in Pages(ScanPattern) : scanKeys_Page(kind, nextCursor, matchedKeys)

NextScan ==
    \/ \E prefix \in RoutePrefixes : scanKeys_Call(prefix \o ":*")
    \/ ScanStep
    \/ Return

SpecScan == InitRoutes /\ [][NextScan]_vars /\ WF_vars(ScanStep)

\* getChampionshipWithSeasons while the ingestion process writes between its
\* two round trips: it deletes or rewrites the record of the championship or
\* of a season and replaces the seasons index. At the start the championship
\* and both seasons have their records, so a record that is missing at the
\* second round trip was deleted in between.
Rewritten(id) == [id |-> id, name |-> "m"]

InitConcurrent ==
    /\ hashes = HashesWith({championshipKey("c1"), seasonKey("s1"), seasonKey("s2")})
    /\ \E idx \in NoDupSeqs(SeasonIds, MaxMembers) :
          sets = [k \in AllSetKeys |-> IF k = seasonsSetKey("c1") THEN idx ELSE <<>>]
    /\ strings = NoStrings
    /\ Idle

BetweenRoundTrips == pc = "gcws2"

NextConcurrent ==
    \/ getChampionshipWithSeasons_Call("c1")
    \/ \E kind \in ReplyKinds : \E errs \in ErrFlags(kind) : getChampionshipWithSeasons_First(kind, errs)
    \/ \E kind \in ReplyKinds : \E errs \in ErrFlags(kind) : getChampionshipWithSeasons_Second(kind, errs)
    \/ /\ BetweenRoundTrips
       /\ \E p \in {<<championshipKey("c1"), "c1">>, <<seasonKey("s1"), "s1">>, <<seasonKey("s2"), "s2">>} :
          \E fields \in {EmptyMap, Rewritten(p[2])} : IngestionWrite(p[1], fields)
    \/ /\ BetweenRoundTrips
       /\ \E members \in NoDupSeqs(SeasonIds, MaxMembers) :
             IngestionIndexWrite(seasonsSetKey("c1"), members)

SpecConcurrent == InitConcurrent /\ [][NextConcurrent]_vars

\* The batch fetcher and the decoder over field-maps whose values do not
\* convert: an integer field without digits or empty, dates that are none,
\* malformed JSON, a boolean field that is neither true nor 1.
RawMaps(id) ==
    {EmptyMap,
     [id |-> id, maxPilots |-> "abc", startDate |-> "2024-13-01", sponsors |-> "{"],
     [id |-> id, minimumAge |-> "", endDate |-> "abc", classification |-> "[1,", isActive |-> "yes"]}

InitRaw ==
    /\ \E m1 \in RawMaps("u1") : \E m2 \in RawMaps("u2") :
          hashes = [k \in AllHashKeys |->
                      IF k = userKey("u1") THEN m1 ELSE IF k = userKey("u2") THEN m2 ELSE EmptyMap]
    /\ sets = [k \in AllSetKeys |-> <<>>]
    /\ strings = NoStrings
    /\ Idle

NextRaw ==
    \/ \E keys \in UNION {[1..n -> BatchKeys] : n \in 0..MaxKeys} : getMultipleHashes_Call(keys)
    \/ \E kind \in ReplyKinds : \E errs \in ErrFlags(kind) : getMultipleHashes_Reply(kind, errs)
    \/ pc = "idle" /\ \E hashData \in RawMaps("u1") : parseHashData_Call(hashData)
    \/ Return

SpecRaw == InitRaw /\ [][NextRaw]_vars

\* The season aggregation followed by getSeasonRegulations for the same
\* season, over the stores of the regulations; the replies carry no
\* per-command error.
NextEquivalence ==
    \/ getSeasonWithCategoriesStagesAndRegulations_Call("s1")
    \/ \E kind \in ReplyKinds : getSeasonWithCategoriesStagesAndRegulations_First(kind, NoErrs)
    \/ \E kind \in ReplyKinds : getSeasonWithCategoriesStagesAndRegulations_Regulations(kind, NoErrs)
    \/ getSeasonRegulations_CallAfter("s1")
    \/ \E kind \in {"array", "reject"} : getSeasonRegulations_Members(kind)
    \/ \E kind \in ReplyKinds : getSeasonRegulations_Fetch(kind, NoErrs)
    \/ Return

SpecEquivalence == InitRegulations /\ [][NextEquivalence]_vars

\* The operations that take an identifier from their caller, handed a
\* well-formed and an empty one.
InitInput == InitReaders

NextInput ==
    \/ \E id \in {"", "c1"} : getChampionshipWithSeasons_Call(id)
    \/ \E kind \in ReplyKinds : getChampionshipWithSeasons_First(kind, NoErrs)
    \/ \E kind \in ReplyKinds : getChampionshipWithSeasons_Second(kind, NoErrs)
    \/ \E id \in {"", "s1"} : getSeasonWithCategoriesStagesAndRegulations_Call(id)
    \/ \E kind \in ReplyKinds : getSeasonWithCategoriesStagesAndRegulations_First(kind, NoErrs)
    \/ \E kind \in ReplyKinds : getSeasonWithCategoriesStagesAndRegulations_Categories(kind, NoErrs)
    \/ \E kind \in ReplyKinds : getSeasonWithCategoriesStagesAndRegulations_Stages(kind, NoErrs)
    \/ \E kind \in ReplyKinds : getSeasonWithCategoriesStagesAndRegulations_Regulations(kind, NoErrs)
    \/ \E id \in {"", "s1"} : getSeasonRegulations_Call(id)
    \/ \E kind \in {"array", "reject"} : getSeasonRegulations_Members(kind)
    \/ \E kind \in ReplyKinds : getSeasonRegulations_Fetch(kind, NoErrs)
    \/ \E prefix \in RoutePrefixes : ScalarPrefixRoute_Request(prefix)
    \/ \E prefix \in RoutePrefixes : CachePrefixRoute_Request(prefix)
    \/ \E kind \in {"reject", "array"} : \E nextCursor \in Cursors :
          \E matchedKeys \in Pages(ScanPattern) : scanKeys_Page(kind, nextCursor, matchedKeys)
    \/ \E kind \in ReplyKinds : CachePrefixRoute_Hashes(kind, NoErrs)
    \/ \E kind \in ReplyKinds : getMultiple_Reply(kind, NoErrs)
    \/ \E prefix \in RoutePrefixes : \E id \in RouteIds : ScalarItemRoute_Request(prefix, id)
    \/ \E prefix \in RoutePrefixes : \E id \in RouteIds : CacheItemRoute_Request(prefix, id)
    \/ \E kind \in {"reject", "array"} : CacheItemRoute_Hash(kind)
    \/ \E kind \in {"reject", "array"} : ItemRoute_Value(kind)
    \/ Return

SpecInput == InitInput /\ [][NextInput]_vars

----------------------------------------------------------------------------
(* Properties of getChampionshipWithSeasons (under SpecChampionship).       *)

IsGcws == call.op = "getChampionshipWithSeasons"

\* the first round trip of the call has been answered with one pair per command
FirstAnswered == trips # <<>> /\ trips[1].reply.kind = "array"

FirstResult(i) == trips[1].reply.results[i]

\* a read that came back without error and with at least one field / one member
ReadPresent(res) == ~res.err /\ DOMAIN res.data # {}

\* a read that came back without error and with no field / no member
ReadEmpty(res) == ~res.err /\ DOMAIN res.data = {}

\* C1: when the championship's field-map comes back absent or empty, the call
\* returns the not-found result (null) whatever the seasons index holds, and it
\* has issued only the first round trip.
C1_AbsentChampionshipIsNotFound ==
    (IsGcws /\ FirstAnswered /\ ReadEmpty(FirstResult(1)))
        => pc = "done" /\ ret = ReturnNull /\ RoundTrips = 1

\* C1 witness: an absent championship whose seasons index came back non-empty.
C1_Witness ==
    /\ IsGcws /\ FirstAnswered /\ ReadEmpty(FirstResult(1))
    /\ ReadPresent(FirstResult(2))
    /\ ret = ReturnNull

\* C2: when the championship's field-map comes back present and the seasons
\* index comes back empty, the call returns the decoded championship with
\* seasons equal to the empty sequence, and not the not-found result.
C2_EmptyIndexGivesEmptySeasons ==
    (IsGcws /\ FirstAnswered /\ ReadPresent(FirstResult(1)) /\ ReadEmpty(FirstResult(2)))
        => /\ pc = "done"
           /\ ret = ReturnValue(WithField(parseHashData(FirstResult(1).data), "seasons", <<>>))
           /\ ret # ReturnNull

\* C2 witness: a present championship with an empty index, returned with no season.
C2_Witness ==
    /\ IsGcws /\ FirstAnswered /\ ReadPresent(FirstResult(1)) /\ ReadEmpty(FirstResult(2))
    /\ ret.kind = "value" /\ ret.val.seasons = <<>> /\ ret.val.id = Str(call.arg)

----------------------------------------------------------------------------
(* Properties of getSeasonWithCategoriesStagesAndRegulations (SpecSeason).  *)

IsGsw == call.op = "getSeasonWithCategoriesStagesAndRegulations"

ChildFields == <<"categories", "stages", "regulations">>

\* the batch that fetches child type n (1 = categories, 2 = stages,
\* 3 = regulations) for the ids the first round trip resolved
ExpectedChildBatch(n) ==
    LET ids == FirstResult(n + 1).data
    IN  [i \in 1..Len(ids) |->
            HGetAllCmd(IF n = 1 THEN categoryKey(ids[i])
                       ELSE IF n = 2 THEN stageKey(ids[i]) ELSE regulationKey(ids[i]))]

\* the child types whose index resolved to a non-empty set, in program order
NonEmptyTypes == SelectSeq(<<1, 2, 3>>, LAMBDA n : ReadPresent(FirstResult(n + 1)))

\* the batches issued after the first round trip
ChildBatches == [j \in 1..(Len(trips) - 1) |-> trips[j + 1].batch]

TripFailed(reply) ==
    \/ reply.kind \in {"reject", "null"}
    \/ reply.kind = "array" /\ \A i \in 1..Len(reply.results) : reply.results[i].err

\* C7: on a present season, a failed fetch of one child type leaves that child
\* type an empty collection and the call still returns the season with the
\* collections of the other child types.
C7_ChildFailureDegrades ==
    (IsGsw /\ pc = "done" /\ FirstAnswered /\ ReadPresent(FirstResult(1))) =>
        \A j \in 1..Len(ChildBatches) :
            TripFailed(trips[j + 1].reply) =>
                /\ ret.kind = "value"
                /\ ret.val[ChildFields[NonEmptyTypes[j]]] = <<>>

\* C7: what the code does keep: a child fetch that resolves to null or whose
\* commands all fail leaves that collection empty and the call returns.
C7_ResolvedFailureDegrades ==
    (IsGsw /\ pc = "done" /\ FirstAnswered /\ ReadPresent(FirstResult(1))) =>
        \A j \in 1..Len(ChildBatches) :
            (TripFailed(trips[j + 1].reply) /\ trips[j + 1].reply.kind # "reject") =>
                (ret.kind = "value" => ret.val[ChildFields[NonEmptyTypes[j]]] = <<>>)

----------------------------------------------------------------------------
(* Properties of getMultipleHashes and getHash (SpecBatch).                 *)

IsGmh == call.op = "getMultipleHashes"

\* the mandatory read of the root entity failed: the round trip rejected, or
\* the root's command came back with an error
RootReadFailed ==
    /\ trips # <<>>
    /\ \/ trips[1].reply.kind = "reject"
       \/ trips[1].reply.kind = "array" /\ trips[1].reply.results[1].err

\* C6: a store failure on the mandatory read of the root entity is surfaced to
\* the caller as an error, never as the not-found result or an empty result.
C6_RootFailureSurfaces ==
    (call.op \in {"getHash", "getChampionshipWithSeasons",
                  "getSeasonWithCategoriesStagesAndRegulations"}
     /\ pc = "done" /\ RootReadFailed) => ret = Thrown

\* C8: getMultipleHashes issues exactly one round trip, a single batch with one
\* field-map read per key, for every non-empty key sequence, and no round trip,
\* with the empty result, for the empty key sequence.
C8_OneBatchedRoundTrip ==
    IsGmh =>
        IF call.arg = <<>>
        THEN trips = <<>> /\ pc = "done" /\ ret = ReturnValue(<<>>)
        ELSE /\ RoundTrips = 1
             /\ trips[1].batch = [i \in 1..Len(call.arg) |-> HGetAllCmd(call.arg[i])]

\* C8 witness: a finished call over the longest key sequence, in one round trip.
C8_Witness ==
    /\ IsGmh /\ pc = "done" /\ Len(call.arg) = MaxKeys
    /\ RoundTrips = 1 /\ ret.kind = "value"

\* the positions of the input keys whose read came back present, in input order
KeptPositions ==
    SelectSeq([i \in 1..Len(call.arg) |-> i], LAMBDA i : ReadPresent(FirstResult(i)))

\* rec without its _redisKey tag
Untagged(rec) == [k \in DOMAIN rec \ {"_redisKey"} |-> rec[k]]

\* C9: the result holds one record per key whose field-map is present and
\* non-empty, in the order of those keys in the input; a key whose field-map is
\* absent or empty leaves no slot, null or other, so the result is at most as
\* long as the input.
C9_MissingKeysDropped ==
    (IsGmh /\ pc = "done" /\ FirstAnswered) =>
        /\ ret.kind = "value"
        /\ Len(ret.val) = Len(KeptPositions)
        /\ Len(ret.val) <= Len(call.arg)
        /\ \A n \in 1..Len(ret.val) :
              /\ ret.val[n] # Null
              /\ Untagged(ret.val[n]) =
                    Untagged(parseHashData(FirstResult(KeptPositions[n]).data))

\* C9 witness: three keys, the middle one absent, the outer two returned in
\* input order.
C9_Witness ==
    /\ IsGmh /\ pc = "done" /\ FirstAnswered
    /\ call.arg = <<userKey("u2"), "user:u3", userKey("u1")>>
    /\ KeptPositions = <<1, 3>>
    /\ Len(ret.val) = 2
    /\ ret.val[1].id = Str("u2") /\ ret.val[2].id = Str("u1")

\* C10: every returned record carries in _redisKey the input key its field-map
\* was read from, also behind dropped keys and also when the stored field-map
\* has a _redisKey field of its own.
C10_TaggedWithOriginKey ==
    (IsGmh /\ pc = "done" /\ FirstAnswered) =>
        /\ Len(ret.val) = Len(KeptPositions)
        /\ \A n \in 1..Len(ret.val) :
              /\ "_redisKey" \in DOMAIN ret.val[n]
              /\ ret.val[n]["_redisKey"] = Str(call.arg[KeptPositions[n]])

\* C10 witness: the first key is dropped and the second key's field-map stores
\* a _redisKey of its own; the record is tagged with the second key.
C10_Witness ==
    /\ IsGmh /\ pc = "done" /\ FirstAnswered
    /\ Len(call.arg) >= 2
    /\ ReadEmpty(FirstResult(1))
    /\ ReadPresent(FirstResult(2))
    /\ "_redisKey" \in DOMAIN FirstResult(2).data
    /\ ret.val[1]["_redisKey"] = Str(call.arg[2])

----------------------------------------------------------------------------
(* Properties of the chained three-level query (SpecChain).                 *)

ChainReturned == chain.phase = "finished" /\ chain.out.kind = "value"

\* the records of the ids of an index that have a field-map, in index order
RecordsOf(ids, keyOf(_)) ==
    LET kept == SelectSeq(ids, LAMBDA i : ~IsEmptyMap(HGetAll(keyOf(i))))
    IN  [n \in 1..Len(kept) |-> parseHashData(HGetAll(keyOf(kept[n])))]

\* the number of child types of the season whose index is non-empty
NonEmptyChildTypes(seasonId) ==
    Cardinality({k \in {categoriesSetKey(seasonId), stagesSetKey(seasonId),
                        regulationsSetKey(seasonId)} : SMembers(k) # <<>>})

\* the season ids of the index that have a season record, in index order
ReturnedSeasonIds(championshipId) ==
    SelectSeq(SMembers(seasonsSetKey(championshipId)),
              LAMBDA i : ~IsEmptyMap(HGetAll(seasonKey(i))))

RECURSIVE SeasonTrips(_)
\* the sum over the season ids of 1 + the number of non-empty child types
SeasonTrips(ids) ==
    IF ids = <<>> THEN 0 ELSE 1 + NonEmptyChildTypes(Head(ids)) + SeasonTrips(Tail(ids))

\* the scenario: seasons [s1, s2], s1 with stages [t1, t2], no other child
Scenario ==
    /\ ~IsEmptyMap(HGetAll(championshipKey("c1")))
    /\ SMembers(seasonsSetKey("c1")) = <<"s1", "s2">>
    /\ ~IsEmptyMap(HGetAll(seasonKey("s1"))) /\ ~IsEmptyMap(HGetAll(seasonKey("s2")))
    /\ SMembers(stagesSetKey("s1")) = <<"t1", "t2">>
    /\ \A k \in AllSetKeys \ {seasonsSetKey("c1"), stagesSetKey("s1")} : SMembers(k) = <<>>

----------------------------------------------------------------------------
(* Failures of the batched fetch (SpecBatch).                               *)

\* C11: when the one round trip of getMultipleHashes fails as a whole (the
\* promise rejects, resolves to null, or every command comes back with an
\* error), the call ends with an error for the caller, never with a result.
C11_BatchFailurePropagates ==
    (IsGmh /\ pc = "done" /\ trips # <<>> /\ TripFailed(trips[1].reply)) => ret = Thrown

\* the positions whose command came back with an error
ErrPositions == {i \in 1..Len(call.arg) : FirstResult(i).err}

\* C12: an error on the command of one key drops only that key: the call
\* returns normally and every key whose command succeeded on a non-empty
\* field-map yields its decoded record, tagged with that key.
C12_KeyErrorDropsOnlyThatKey ==
    (IsGmh /\ pc = "done" /\ FirstAnswered) =>
        /\ ret.kind = "value"
        /\ Len(ret.val) =
              Cardinality({i \in 1..Len(call.arg) \ ErrPositions :
                              ~IsEmptyMap(HGetAll(call.arg[i]))})
        /\ \A i \in 1..Len(call.arg) \ ErrPositions :
              ~IsEmptyMap(HGetAll(call.arg[i])) =>
                  \E n \in 1..Len(ret.val) :
                      ret.val[n] = GmhTag(parseHashData(HGetAll(call.arg[i])), call.arg[i])
        /\ \A n \in 1..Len(ret.val) :
              \E i \in 1..Len(call.arg) \ ErrPositions :
                  ret.val[n]["_redisKey"] = Str(call.arg[i])

\* C12 witness: three keys with stored records where two are the same key;
\* one command fails and the records of the two others are returned.
C12_Witness ==
    /\ IsGmh /\ pc = "done" /\ FirstAnswered
    /\ Len(call.arg) = 3
    /\ \A i \in 1..3 : ~IsEmptyMap(HGetAll(call.arg[i]))
    /\ ErrPositions = {2}
    /\ ret.kind = "value" /\ Len(ret.val) = 2

----------------------------------------------------------------------------
(* The order of the regulations collection (SpecRegulations).               *)

\* the call has returned a regulations collection fetched by a batch that
\* came back with one pair per command
RegulationsReturned ==
    /\ pc = "done" /\ ret.kind = "value"
    /\ \/ call.op = "getSeasonRegulations" /\ Len(trips) = 2
       \/ call.op = "getSeasonWithCategoriesStagesAndRegulations" /\ Len(trips) = 2
    /\ trips[2].reply.kind = "array"

\* the returned regulations collection
ReturnedRegulations ==
    IF call.op = "getSeasonRegulations" THEN ret.val ELSE ret.val.regulations

\* the fetched non-empty regulation records, in index-resolution order
FetchedRegulations ==
    LET rs == trips[2].reply.results
        present == SelectSeq([i \in 1..Len(rs) |-> i], LAMBDA i : ReadPresent(rs[i]))
    IN  [n \in 1..Len(present) |-> parseHashData(rs[present[n]].data)]

\* the order of a record as the ingestion wrote it, a missing or empty one
\* counting as 0
OrderValue(rec) ==
    IF "order" \notin DOMAIN rec THEN 0
    ELSE CASE rec["order"] = Str("") -> 0
           [] rec["order"] = Str("1") -> 1
           [] rec["order"] = Str("2") -> 2
           [] rec["order"] = Str("3") -> 3
           [] rec["order"] = Str("10") -> 10

\* the position of a record in the fetched sequence
FetchedAt(rec) == CHOOSE i \in 1..Len(FetchedRegulations) : FetchedRegulations[i] = rec

\* C13: the regulations collection returned by either function is a
\* permutation of the fetched non-empty regulation records, ascending in the
\* order field with a missing order counting as 0, and records of equal order
\* stay in index-resolution order.
C13_RegulationsSortedStable ==
    RegulationsReturned =>
        LET out == ReturnedRegulations
        IN  /\ Len(out) = Len(FetchedRegulations)
            /\ {out[n] : n \in 1..Len(out)} =
                  {FetchedRegulations[i] : i \in 1..Len(FetchedRegulations)}
            /\ \A n, m \in 1..Len(out) :
                  n < m =>
                     /\ OrderValue(out[n]) <= OrderValue(out[m])
                     /\ OrderValue(out[n]) = OrderValue(out[m]) =>
                            FetchedAt(out[n]) < FetchedAt(out[m])

\* C13 witness: orders [3, 1, 2] and one regulation without order come back as
\* [missing, 1, 2, 3].
C13_Witness ==
    /\ RegulationsReturned
    /\ call.op = "getSeasonWithCategoriesStagesAndRegulations"
    /\ [i \in 1..Len(FetchedRegulations) |-> FetchedRegulations[i].id] =
          <<Str("r1"), Str("r2"), Str("r3"), Str("r4")>>
    /\ [i \in 1..Len(FetchedRegulations) |-> OrderValue(FetchedRegulations[i])] = <<3, 1, 2, 0>>
    /\ "order" \notin DOMAIN FetchedRegulations[4]
    /\ [n \in 1..Len(ret.val.regulations) |-> ret.val.regulations[n].id] =
          <<Str("r4"), Str("r2"), Str("r3"), Str("r1")>>

----------------------------------------------------------------------------
(* The order of the seasons, categories and stages (SpecAggregator).        *)

\* the place of a child in the resolved index
IndexPosition(ids, id) == CHOOSE i \in 1..Len(ids) : Str(ids[i]) = id

\* out holds exactly the children whose read came back present, none of them
\* a null slot, and in the order of their ids in the index
KeepsResolutionOrder(out, ids, results) ==
    LET present == {i \in 1..Len(ids) : ReadPresent(results[i])}
    IN  /\ Len(out) = Cardinality(present)
        /\ \A n \in 1..Len(out) : out[n] # Null
        /\ {out[n].id : n \in 1..Len(out)} = {Str(ids[i]) : i \in present}
        /\ \A n, m \in 1..Len(out) :
              n < m => IndexPosition(ids, out[n].id) < IndexPosition(ids, out[m].id)

C14_OmittedSeason ==
    /\ IsGcws /\ pc = "done" /\ Len(trips) = 2 /\ trips[2].reply.kind = "array"
    /\ FirstResult(2).data = <<"s2", "s1">>
    /\ ReadEmpty(trips[2].reply.results[1])
    /\ ret.val.seasons = <<parseHashData(RecordAt(seasonKey("s1")))>>

----------------------------------------------------------------------------
(* The set readers (SpecSets).                                              *)

IsGms == call.op = "getMultipleSets"

\* the keys of the call, as a set
RequestedKeys == {call.arg[i] : i \in 1..Len(call.arg)}

\* C15: getSetMembers answers an index key the store does not hold with the
\* empty sequence, as a value; getMultipleSets reads any non-empty list of
\* index keys in one round trip, a single batch of one SMEMBERS per key, and
\* its mapping has an entry for every requested key whose command came back
\* without error (every requested key when no command failed), holding the
\* members of that index, the empty sequence for an index the store does not
\* hold.
C15_SetReaders ==
    /\ (call.op = "getSetMembers" /\ pc = "done") =>
          /\ RoundTrips = 1
          /\ ret.kind = "value"
          /\ FirstAnswered => ret.val = SMembers(call.arg)
          /\ (FirstAnswered /\ call.arg \notin DOMAIN sets) => ret.val = <<>>
    /\ IsGms =>
          IF call.arg = <<>>
          THEN trips = <<>> /\ pc = "done" /\ ret = ReturnValue(EmptyMap)
          ELSE /\ RoundTrips = 1
               /\ trips[1].batch = [i \in 1..Len(call.arg) |-> SMembersCmd(call.arg[i])]
    /\ (IsGms /\ pc = "done" /\ FirstAnswered) =>
          /\ ret.kind = "value"
          /\ DOMAIN ret.val \subseteq RequestedKeys
          /\ \A i \in 1..Len(call.arg) :
                ~FirstResult(i).err =>
                    /\ call.arg[i] \in DOMAIN ret.val
                    /\ ret.val[call.arg[i]] = SMembers(call.arg[i])
          /\ (\A i \in 1..Len(call.arg) : ~FirstResult(i).err) =>
                DOMAIN ret.val = RequestedKeys

\* C15 witness: three index keys, one of them not in the store and one with
\* two members, read in one round trip; the mapping has the three entries.
C15_Witness ==
    /\ IsGms /\ pc = "done" /\ FirstAnswered
    /\ call.arg = <<"season:s9:stages", stagesSetKey("s1"), regulationsSetKey("s1")>>
    /\ \A i \in 1..3 : ~FirstResult(i).err
    /\ RoundTrips = 1
    /\ Len(sets[stagesSetKey("s1")]) = 2
    /\ DOMAIN ret.val = RequestedKeys
    /\ ret.val["season:s9:stages"] = <<>>
    /\ Len(ret.val[stagesSetKey("s1")]) = 2

----------------------------------------------------------------------------
(* The decoder (SpecDecoder).                                               *)

\* a decode has returned
Decoded == call.op = "parseHashData" /\ pc = "done"

\* C16: a boolean field decodes to true exactly when its raw value is "true"
\* or "1", and to false in every other case, the field being absent from the
\* field-map included.
C16_BooleanDecode ==
    Decoded =>
        \A f \in BoolFields :
            /\ f \in DOMAIN ret.val
            /\ ret.val[f] = Bool(f \in DOMAIN call.arg /\ call.arg[f] \in {"true", "1"})

\* C16: what the code keeps: a boolean field that is in the field-map decodes
\* to true exactly for "true" and "1"; one that is not in the field-map is not
\* in the record either.
C16_PresentBooleanDecode ==
    Decoded =>
        \A f \in BoolFields :
            IF f \in DOMAIN call.arg
            THEN f \in DOMAIN ret.val /\ ret.val[f] = Bool(call.arg[f] \in {"true", "1"})
            ELSE f \notin DOMAIN ret.val

\* raw values that are not JSON
MalformedJson == {"{", "[1,", "abc"}

\* the field-map without field f
WithoutField(m, f) == [k \in DOMAIN m \ {f} |-> m[k]]

\* what is decoded from m for the fields other than f equals what is decoded
\* from m without f
SiblingsUntouched(m, d, f) ==
    LET rest == parseHashData(WithoutField(m, f))
    IN  /\ DOMAIN d \ {f} = DOMAIN rest
        /\ \A g \in DOMAIN rest : d[g] = rest[g]

\* C17: malformed JSON in sponsors, trackLayouts, defaultFleets, generalInfo or
\* pilots decodes to the empty sequence and malformed JSON in classification
\* to null; every other field of the field-map is decoded as it is without the
\* malformed field.
C17_MalformedJsonIsContained ==
    Decoded =>
        \A f \in JsonFields :
            (f \in DOMAIN call.arg /\ call.arg[f] \in MalformedJson) =>
                /\ f \in DOMAIN ret.val
                /\ ret.val[f] = IF f = "classification" THEN JsNull ELSE Arr(<<>>)
                /\ SiblingsUntouched(call.arg, ret.val, f)

\* C17 witness: a malformed classification next to an integer, a timestamp
\* and a boolean field, which are decoded.
C17_Witness ==
    /\ Decoded
    /\ "classification" \in DOMAIN call.arg /\ call.arg["classification"] = "[1,"
    /\ ret.val["classification"] = JsNull
    /\ ret.val["maxPilots"] = Num(12)
    /\ ret.val["startDate"] = DateOf("2024-01-15")
    /\ ret.val["isActive"] = Bool(TRUE)

\* C18: a nested-document field that is absent from the field-map, or present
\* with the empty string, is in the record as the empty sequence, and as null
\* for classification.
C18_AbsentDocumentDefault ==
    Decoded =>
        \A f \in JsonFields :
            (f \notin DOMAIN call.arg \/ call.arg[f] = "") =>
                /\ f \in DOMAIN ret.val
                /\ ret.val[f] = IF f = "classification" THEN JsNull ELSE Arr(<<>>)

\* C18: what the code keeps: the default is given for the empty string; a
\* nested-document field that is not in the field-map is not in the record.
C18_EmptyDocumentDefault ==
    Decoded =>
        \A f \in JsonFields :
            IF f \notin DOMAIN call.arg THEN f \notin DOMAIN ret.val
            ELSE call.arg[f] = "" =>
                    ret.val[f] = IF f = "classification" THEN JsNull ELSE Arr(<<>>)

\* the fields the decoder converts
ConvertedFields == IntFields \cup DateFields \cup JsonFields \cup BoolFields

\* C19: every field that is not an integer, timestamp, nested-document or
\* boolean field comes out with its string value unchanged, and the record has
\* exactly the field names of the field-map.
C19_OtherFieldsPassThrough ==
    Decoded =>
        /\ DOMAIN ret.val = DOMAIN call.arg
        /\ \A f \in DOMAIN call.arg \ ConvertedFields :
              ret.val[f] = [t |-> "string", v |-> call.arg[f]]

\* C19 witness: an order field whose text looks like a number, and a name,
\* both passed through as strings.
C19_Witness ==
    /\ Decoded
    /\ DOMAIN call.arg = {"id", "name", "order"}
    /\ call.arg["order"] = "12"
    /\ ret.val["order"] = [t |-> "string", v |-> "12"]
    /\ ret.val["name"] = [t |-> "string", v |-> "n"]

C20_DecodeTouchesNothing ==
    [][(call'.op = "parseHashData" /\ pc' = "done" /\ <<call, ret, loc>> # <<call', ret', loc'>>)
          => UNCHANGED <<hashes, sets, strings, trips>>]_vars

----------------------------------------------------------------------------
(* The frame of the reading operations                                      *)

\* the commands that leave every key of the store as it is
ReadCommands == {"hgetall", "smembers", "get", "scan", "ping"}

\* the commands of the round trips of the current call
IssuedCommands == UNION {{trips[i].batch[j].cmd : j \in DOMAIN trips[i].batch} : i \in DOMAIN trips}

\* C21: scanKeys, getMultipleHashes, getHash, getSetMembers, getMultipleSets,
\* the aggregators, getMultiple, healthCheck and the cache and club routes
\* leave the store unchanged: every command they send is a read, and no step
\* of theirs changes a field-map, an index or a scalar value.
C21_StoreUnchanged ==
    /\ [](IssuedCommands \subseteq ReadCommands)
    /\ [][UNCHANGED <<hashes, sets, strings>>]_vars

\* C21 witness: a listing answered after three round trips (the scan, the
\* field-maps, the scalar values) over a store that holds scalar values.
C21_Witness ==
    /\ pc = "done"
    /\ call.op = CachePrefixOp
    /\ RoundTrips = 3
    /\ IssuedCommands = {"scan", "hgetall", "get"}
    /\ DOMAIN strings = StringKeys

----------------------------------------------------------------------------
(* Failed round trips                                                       *)

\* round trip i of the current call was rejected by the store
Rejected(i) == trips[i].reply.kind = "reject"

\* the outcomes that tell the caller of a store failure: an exception, the
\* 500 response, and false from healthCheck
SurfacesFailure(r) ==
    \/ r = Thrown
    \/ r.kind = "response" /\ r.status = 500
    \/ call.op = "healthCheck" /\ r = ReturnValue(FALSE)

\* C22: no operation retries: a rejected round trip is the last round trip
\* of its call, and the call then ends with the failure surfaced to its
\* caller.
C22_FailureEndsTheCall ==
    /\ \A i \in DOMAIN trips : Rejected(i) => i = Len(trips)
    /\ (pc = "done" /\ trips # <<>> /\ Rejected(Len(trips))) => SurfacesFailure(ret)

\* C22, the part the code keeps: apart from the item route that falls back
\* to the scalar read, no call sends a round trip after a rejected one, and
\* no call sends the rejected batch again.
C22_NoRetry ==
    \A i \in DOMAIN trips :
        (Rejected(i) /\ i < Len(trips)) =>
            /\ call.op = CacheItemOp
            /\ \A j \in DOMAIN trips : j # i => trips[j].batch # trips[i].batch

----------------------------------------------------------------------------
(* The single-record lookups                                                *)

ItemOps == {ScalarItemOp, CacheItemOp, ClubByIdOp}

\* a single-record lookup has answered after reading the store
ItemAnswered == pc = "done" /\ call.op \in ItemOps /\ trips # <<>>

\* some read of the current call was rejected by the store
ReadFailed == \E i \in DOMAIN trips : Rejected(i)

\* absence and failure on the lookup that has answered
AbsenceAndFailureDiffer ==
    /\ ReadFailed => ret.status = 500
    /\ (~ReadFailed /\ loc.key \notin ExistingKeys) => ret.status = 404

\* C23: on GET /clubs/id/:id and GET /cache/:prefix/:id an absent key is
\* answered 404 and a failed store read 500, never one as the other.
C23_AbsenceAndFailureDiffer == ItemAnswered => AbsenceAndFailureDiffer

\* C23, where the code keeps it: the club lookup and the scalar generation
\* of the item route, which read the key once.
C23_ScalarLookups == (ItemAnswered /\ call.op # CacheItemOp) => AbsenceAndFailureDiffer

----------------------------------------------------------------------------
(* The legacy scalar read                                                   *)

\* the positions <<i, j>> of the commands sent in the current call
CommandPositions == UNION {{<<i, j>> : j \in DOMAIN trips[i].batch} : i \in DOMAIN trips}

\* command j of round trip i is the scalar read of a key
IsScalarRead(i, j) == trips[i].batch[j].cmd = "get"

\* a round trip before round trip i read the field-map of the key
FieldMapReadBefore(i, key) ==
    \E p \in CommandPositions : p[1] < i /\ trips[p[1]].batch[p[2]] = HGetAllCmd(key)

\* a round trip before round trip i read the field-map of the key and the
\* store answered the empty map
EmptyMapBefore(i, key) ==
    \E p \in CommandPositions :
        /\ p[1] < i
        /\ trips[p[1]].batch[p[2]] = HGetAllCmd(key)
        /\ trips[p[1]].reply.kind = "array"
        /\ ~trips[p[1]].reply.results[p[2]].err
        /\ IsEmptyMap(trips[p[1]].reply.results[p[2]].data)

HierarchyTypes == {"championship", "season", "category", "stage", "regulation"}

\* C24: the scalar GET of a key is sent only after the field-map read of
\* that key returned the empty map, and for a key of a hierarchy type it is
\* never the first read of the key.
C24_ScalarReadOnlyAsFallback ==
    \A p \in CommandPositions :
        IsScalarRead(p[1], p[2]) =>
            LET key == trips[p[1]].batch[p[2]].key
            IN  /\ EmptyMapBefore(p[1], key)
                /\ KeyPrefix(key) \in HierarchyTypes => FieldMapReadBefore(p[1], key)

\* C24, what the handlers of routes/cache.routes.ts keep: they send the
\* scalar GET of a key only after the field-map read of that key, and send
\* no read at all for a hierarchy prefix.
C24_FieldMapFirst ==
    call.op \in {CachePrefixOp, CacheItemOp} =>
        \A p \in CommandPositions :
            /\ IsScalarRead(p[1], p[2]) => FieldMapReadBefore(p[1], trips[p[1]].batch[p[2]].key)
            /\ trips[p[1]].batch[p[2]].cmd \in {"get", "hgetall"} =>
                  KeyPrefix(trips[p[1]].batch[p[2]].key) \notin OptimizedPrefixes

----------------------------------------------------------------------------
(* Malformed identifiers                                                    *)

\* the identifiers the caller supplied to the current call
SuppliedIdentifiers ==
    IF call.op \in {ScalarItemOp, CacheItemOp} THEN {call.arg[1], call.arg[2]}
    ELSE IF call.op \in {ScalarPrefixOp, CachePrefixOp, "getChampionshipWithSeasons",
                         "getSeasonWithCategoriesStagesAndRegulations", "getSeasonRegulations"}
    THEN {call.arg}
    ELSE {}

\* the InvalidInput outcome: the 400 response of a handler, an exception of
\* an operation
InvalidInput(r) == r = Thrown \/ (r.kind = "response" /\ r.status = 400)

\* C25: a call with a missing or empty prefix, id, championshipId or seasonId
\* sends no round trip and ends as InvalidInput.
C25_MalformedRejectedFirst ==
    "" \in SuppliedIdentifiers => (trips = <<>> /\ pc = "done" /\ InvalidInput(ret))

\* C25, what the code keeps: the handlers of the generic routes answer 400
\* for an empty prefix or id before any round trip.
C25_RoutesRejectFirst ==
    (call.op \in {ScalarItemOp, CacheItemOp, ScalarPrefixOp, CachePrefixOp} /\ "" \in SuppliedIdentifiers)
        => (trips = <<>> /\ pc = "done" /\ InvalidInput(ret))

----------------------------------------------------------------------------
(* The listing of a prefix                                                  *)

\* round trip i is a SCAN
IsScan(i) == trips[i].batch[1].cmd = "scan"

RECURSIVE PagesUpTo(_)
\* the keys of the pages of the first n round trips, in page order
PagesUpTo(n) ==
    IF n = 0 THEN <<>>
    ELSE IF IsScan(n) /\ trips[n].reply.kind = "array"
    THEN PagesUpTo(n - 1) \o trips[n].reply.results[1].data.keys
    ELSE PagesUpTo(n - 1)

\* the keys the scan of the current call has found
ScannedKeys == PagesUpTo(Len(trips))

ScanFailed == \E i \in DOMAIN trips : IsScan(i) /\ Rejected(i)
BatchedReadFailed == \E i \in DOMAIN trips : ~IsScan(i) /\ TripFailed(trips[i].reply)

\* the scalar value of the key is present and parses as JSON
Decodable(key) == key \in DOMAIN strings /\ strings[key] # "" /\ JSONParse(strings[key]).ok

\* the value is a JSON object or array, which is what getMultiple keeps
DecodableObject(key) ==
    /\ Decodable(key)
    /\ JSONParse(strings[key]).v.t \in {"object", "array"}

\* the batched read of the scalar values answered the command of scanned key i
\* without error
ValueRead(i) ==
    /\ trips[Len(trips)].batch[1].cmd = "get"
    /\ trips[Len(trips)].reply.kind = "array"
    /\ ~trips[Len(trips)].reply.results[i].err

PrefixAnswered == pc = "done" /\ call.op \in {ScalarPrefixOp, CachePrefixOp} /\ call.arg # ""

\* C26: GET /cache/:prefix answers 500 when the scan or the batched read
\* failed, 404 exactly when the scan found no key, and otherwise 200 with
\* count = length of data and one entry of data per scanned key whose value
\* is present and parses as JSON (so 200 with count 0 when no value decodes).
C26_PrefixListing ==
    PrefixAnswered =>
        IF ScanFailed \/ BatchedReadFailed THEN ret.status = 500
        ELSE IF ScannedKeys = <<>> THEN ret.status = 404
        ELSE /\ ret.status = 200
             /\ ret.body.count = Len(ret.body.data)
             /\ Len(ret.body.data) =
                  Cardinality({i \in DOMAIN ScannedKeys : ValueRead(i) /\ Decodable(ScannedKeys[i])})

\* C26, what the handler of unnamed/part_004 keeps: 500 when the scan or
\* the pipeline is rejected, 404 exactly when the scan found no key, else 200
\* with count = length of data and one entry per scanned key whose command
\* had no error and whose value parses to a JSON object or array.
C26_ScalarListing ==
    (PrefixAnswered /\ call.op = ScalarPrefixOp) =>
        IF ReadFailed THEN ret.status = 500
        ELSE IF ScannedKeys = <<>> THEN ret.status = 404
        ELSE /\ ret.status = 200
             /\ RoundTrips = Len(SelectSeq(trips, LAMBDA t : t.batch[1].cmd = "scan")) + 1
             /\ ret.body.count = Len(ret.body.data)
             /\ Len(ret.body.data) =
                  Cardinality({i \in DOMAIN ScannedKeys :
                                  ValueRead(i) /\ DecodableObject(ScannedKeys[i])})

\* C26 in the case the claim singles out: keys exist, none has a decodable
\* value, and the answer is 200 with count 0.
C26_NoneDecodable ==
    /\ PrefixAnswered /\ call.op = ScalarPrefixOp
    /\ ~ReadFailed /\ trips[Len(trips)].reply.kind = "array"
    /\ ScannedKeys = <<"club:a">>
    /\ ~Decodable("club:a")
    /\ ret.status = 200 /\ ret.body.count = 0

----------------------------------------------------------------------------
(* scanKeys                                                                 *)

IsScanKeys == call.op = "scanKeys"

\* the cursor the store returned on round trip i
ReturnedCursor(i) == trips[i].reply.results[1].data.cursor

\* round trip i got its page
PageAnswered(i) == trips[i].reply.kind = "array"

\* one SCAN per page, from cursor '0', each with the cursor the page before
\* returned, and none after the store returned '0' or rejected
ScanChain ==
    \A i \in DOMAIN trips :
        /\ Len(trips[i].batch) = 1
        /\ trips[i].batch[1] =
              ScanCmd(call.arg, IF i = 1 THEN "0" ELSE ReturnedCursor(i - 1))
        /\ i > 1 => (PageAnswered(i - 1) /\ ReturnedCursor(i - 1) # "0")

\* the scan ends exactly when the store returns cursor '0' (or rejects), and
\* then returns the pages' keys in page order, duplicates kept
ScanEnds ==
    LET n == Len(trips)
    IN  /\ pc = "scan" => trips[n].reply = Pending
        /\ pc = "done" =>
              IF Rejected(n) THEN ret = Thrown
              ELSE /\ PageAnswered(n) /\ ReturnedCursor(n) = "0"
                   /\ ret = ReturnValue(ScannedKeys)

\* C27: scanKeys sends one SCAN per page, the first with cursor '0' and each
\* next one with the cursor just returned; it ends exactly when the store
\* returns '0', which it does whenever the store's cursor sequence reaches
\* '0'; the result is the concatenation of the pages in page order, a key
\* reported on two pages appearing twice.
C27_ScanPaging ==
    /\ [](IsScanKeys => (ScanChain /\ ScanEnds))
    /\ (IsScanKeys /\ pc = "scan") ~> (IsScanKeys /\ pc = "done")

\* C27 witness: two pages, the cursor 17 passed on, the same key on both
\* pages and twice in the result.
C27_Witness ==
    /\ IsScanKeys /\ pc = "done"
    /\ RoundTrips = 2
    /\ trips[2].batch[1].cursor = "17"
    /\ ret = ReturnValue(<<"club:a", "club:b", "club:a">>)

----------------------------------------------------------------------------
(* Writes of the ingestion process during getChampionshipWithSeasons        *)

\* the seasons index as the first round trip read it
FirstIndex == FirstResult(2).data

\* C28: with writes of the ingestion process between the two round trips,
\* the result is well formed: the championship is the record of the first
\* round trip; the second round trip fetches the seasons of the index as
\* first read, so a season added since is not returned; the seasons returned
\* are those of that index whose record the second round trip found, in
\* index order, and a season deleted in between is left out without a null
\* slot.
C28_WellFormedUnderWrites ==
    (IsGcws /\ pc = "done" /\ Len(trips) = 2 /\ ret.kind = "value") =>
        /\ WithoutField(ret.val, "seasons") = parseHashData(FirstResult(1).data)
        /\ Len(trips[2].batch) = Len(FirstIndex)
        /\ \A i \in 1..Len(FirstIndex) : trips[2].batch[i] = HGetAllCmd(seasonKey(FirstIndex[i]))
        /\ \A n \in 1..Len(ret.val.seasons) :
              /\ ret.val.seasons[n] # Null
              /\ \E i \in 1..Len(FirstIndex) : ret.val.seasons[n].id = Str(FirstIndex[i])
        /\ trips[2].reply.kind = "array" =>
              KeepsResolutionOrder(ret.val.seasons, FirstIndex, trips[2].reply.results)

\* C28 witness: the index was [s1, s2] at the first round trip; since then s1
\* was deleted, the championship rewritten and the index replaced; the result
\* has the championship as first read and the one season s2.
C28_Witness ==
    /\ IsGcws /\ pc = "done" /\ Len(trips) = 2 /\ ret.kind = "value"
    /\ FirstIndex = <<"s1", "s2">>
    /\ IsEmptyMap(hashes[seasonKey("s1")])
    /\ hashes[championshipKey("c1")] = Rewritten("c1")
    /\ sets[seasonsSetKey("c1")] = <<"s2">>
    /\ ret.val.name = Str("n")
    /\ Len(ret.val.seasons) = 1 /\ ret.val.seasons[1].id = Str("s2")

\* a second reachable case: s2 was added to the index and s1 rewritten in
\* between; s2 is not returned and s1 comes as rewritten
C28_AddedSeason ==
    /\ IsGcws /\ pc = "done" /\ Len(trips) = 2 /\ ret.kind = "value"
    /\ FirstIndex = <<"s1">>
    /\ sets[seasonsSetKey("c1")] = <<"s1", "s2">>
    /\ Len(ret.val.seasons) = 1
    /\ ret.val.seasons[1].id = Str("s1") /\ ret.val.seasons[1].name = Str("m")

----------------------------------------------------------------------------
(* The decoder is total                                                     *)

\* the positions of the keys of the call whose field-map is not empty
NonEmptyPositions == {i \in 1..Len(call.arg) : ~IsEmptyMap(HGetAll(call.arg[i]))}

\* C29: parseHashData returns a record, with every field of the field-map,
\* for every field-map of strings, invalid integers, invalid dates and
\* malformed JSON included; hence getMultipleHashes, when no command of its
\* batch has an error, returns exactly as many records as there are input
\* keys with a non-empty field-map.
C29_TotalDecodeExactLength ==
    /\ Decoded => (ret.kind = "value" /\ DOMAIN ret.val = DOMAIN call.arg)
    /\ (IsGmh /\ pc = "done" /\ FirstAnswered /\ ErrPositions = {}) =>
          /\ ret.kind = "value"
          /\ Len(ret.val) = Cardinality(NonEmptyPositions)
          /\ \A n \in 1..Len(ret.val) : ret.val[n] # Null

\* C29 witness: three keys, the second without field-map, the first with an
\* invalid integer, an invalid date and malformed JSON, the third with
\* malformed classification; two records come back, with NaN and null there.
C29_Witness ==
    /\ IsGmh /\ pc = "done" /\ FirstAnswered /\ ErrPositions = {}
    /\ call.arg = <<userKey("u1"), "user:u3", userKey("u2")>>
    /\ "maxPilots" \in DOMAIN hashes[userKey("u1")]
    /\ "classification" \in DOMAIN hashes[userKey("u2")]
    /\ Len(ret.val) = 2
    /\ ret.val[1].maxPilots = NaN /\ ret.val[1].startDate = InvalidDate
    /\ ret.val[1].sponsors = Arr(<<>>)
    /\ ret.val[2].classification = JsNull

----------------------------------------------------------------------------
(* getSeasonRegulations against the season aggregation                      *)

\* every round trip of tr was answered in full and without error
NoFailureIn(tr) ==
    \A i \in DOMAIN tr :
        /\ tr[i].reply.kind = "array"
        /\ \A j \in DOMAIN tr[i].reply.results : ~tr[i].reply.results[j].err

\* getSeasonRegulations has returned to a caller that holds the outcome of
\* the season aggregation for the same season, neither call with a failure
ComparedWithoutFailure ==
    /\ call.op = "getSeasonRegulations" /\ pc = "done"
    /\ loc.op = "after"
    /\ NoFailureIn(loc.prevTrips) /\ NoFailureIn(trips)

\* C30: on an unchanged store and without store failure, for a present
\* season, getSeasonRegulations returns the same records in the same order as
\* the regulations field of getSeasonWithCategoriesStagesAndRegulations.
C30_SameRegulations ==
    (ComparedWithoutFailure /\ loc.prev.kind = "value") =>
        /\ ret.kind = "value"
        /\ ret.val = loc.prev.val.regulations

\* C30 witness: three regulations whose order values differ from the index
\* order, one more indexed without record, returned in the same ascending
\* order by both calls.
C30_Witness ==
    /\ ComparedWithoutFailure /\ loc.prev.kind = "value"
    /\ SMembers(regulationsSetKey("s1")) = <<"r1", "r2", "r3", "r4">>
    /\ IsEmptyMap(HGetAll(regulationKey("r2")))
    /\ Len(ret.val) = 3
    /\ ret.val[3].id = Str("r1")
    /\ ret.val = loc.prev.val.regulations

====
